---- MODULE Spec2Model ----
(***************************************************************************)
(* Retrieval core of the RAG agents:                                       *)
(*   - DocumentProcessor.process_document   (src/enhanced_rag_agent.py)    *)
(*   - SimpleRAGAgent.search_knowledge      (src/rag_agent.py)             *)
(* A Python str is a sequence of one-character strings, so that split,     *)
(* join, lower and the substring test are computed character by character. *)
(***************************************************************************)
EXTENDS Integers, Sequences, FiniteSets, TLC

VARIABLES
    chunk_size,         \* DocumentProcessor.chunk_size
    overlap,            \* DocumentProcessor.overlap
    doc_text,           \* argument of the last process_document call
    dp_out,             \* outcome of the last process_document call
    knowledge_base,     \* SimpleRAGAgent.knowledge_base
    query,              \* argument of the last search_knowledge call
    relevant_sections,  \* search_knowledge: relevant_sections before the sort
    sorted_sections,    \* search_knowledge: relevant_sections after the sort
    top_matches,        \* search_knowledge: top_matches
    accepted,           \* search_knowledge: positions of top_matches appended to unique_matches
    unique_matches,     \* search_knowledge: unique_matches
    context             \* return value of the last search_knowledge call

VARIABLES
    voice_text,         \* argument of the last clean_for_voice call
    voice_out           \* return value of the last clean_for_voice call

voiceVars == <<voice_text, voice_out>>

VARIABLES
    agent_fast_mode,    \* app.agent.fast_mode
    agent_llm,          \* app.agent.llm: the completion service run() invokes
    request,            \* JSON body of the chat request being handled
    answer_path,        \* chat: the agent method the request is answered by
    backend,            \* the completion service invoked for the request
    prompt,             \* the prompt given to it
    llm_outcome,        \* what its invoke() did: a response, or an exception
    agent_out,          \* outcome of agent.run / agent.run_advanced
    response            \* chat: the 'response' of the JSON answer

VARIABLES
    kb_file,            \* the file knowledge_base.txt: absent, readable or unreadable
    docs_exists,        \* os.path.exists('doccydocs')
    docs,               \* os.listdir('doccydocs'): the files, in listing order
    load_out            \* outcome of the last load_knowledge_base call

loadVars == <<kb_file, docs_exists, docs, load_out>>

VARIABLES
    qa_chain,           \* SmartRAGAgent.qa_chain is set (not None)
    smart_kb,           \* SmartRAGAgent.knowledge_base: whether set, and its text
    smart_query,        \* argument of the last SmartRAGAgent.run call
    vector_up,          \* the vector-search backend answered during that call
    smart_out           \* outcome of that call: the path taken and the answer

smartVars == <<qa_chain, smart_kb, smart_query, vector_up, smart_out>>

VARIABLES
    disk,               \* the documents in the upload folder
    heap,               \* the SimpleRAGAgent objects created so far
    agent_ref,          \* app.agent: the object the module global is bound to
    workers,            \* the request threads: position and locals of each
    agent_cfg,          \* fast_mode and llm.model of each object of heap
    app_mode            \* app.app_mode

reloadVars == <<disk, heap, agent_ref, workers, agent_cfg, app_mode>>

VARIABLES
    window_size,        \* ContextManager.window_size
    history_maxlen,     \* maxlen of the deque ContextManager.history
    history,            \* ContextManager.history, oldest entry first
    appended,           \* every message given to history.append so far, in order
    console_history,    \* the list 'history' of the console loop
    agents,             \* AgentManager.agents: the keys in insertion order
    chat_query,         \* ImprovedRAGAgent.chat: the query of the last call
    chat_out            \* ImprovedRAGAgent.chat: the agent run and its input

ctxVars == <<window_size, history_maxlen, history, appended, console_history, agents,
             chat_query, chat_out>>

chatVars == <<agent_fast_mode, agent_llm, request, answer_path, backend, prompt,
              llm_outcome, agent_out, response>>

\* the state outside the chunker and the search
restVars == <<voiceVars, chatVars, loadVars, smartVars, reloadVars, ctxVars>>

vars == <<chunk_size, overlap, doc_text, dp_out, knowledge_base, query,
          relevant_sections, sorted_sections, top_matches, accepted,
          unique_matches, context, restVars>>

chunkVars == <<chunk_size, overlap, doc_text, dp_out>>
searchVars == <<knowledge_base, query, relevant_sections, sorted_sections,
                top_matches, accepted, unique_matches, context>>

----------------------------------------------------------------------------
(* Bounds of the model *)

MaxTextLen == 6      \* characters of a document given to process_document
MaxChunkSize == 3    \* largest chunk_size / overlap configured
MaxLines == 6        \* lines of a generated knowledge base
MaxContextChars == 4 \* largest character budget asked of the assembler
MaxMarkup == 2       \* characters of markup or whitespace around a model response
MaxFiles == 3        \* files in the document folder
MaxWindowLines == 8  \* lines of a knowledge base whose windows are examined
MaxCapacity == 3     \* largest CONTEXT_WINDOW configured, the default apart
MaxHistory == 2      \* messages of a history given to chat or manage_context
MaxAppended == 5     \* messages appended to a context window in all
MaxTurns == 4        \* turns of a console conversation
MaxDocs == 2         \* documents that are uploaded and deleted while requests run
MaxAgents == 3       \* SimpleRAGAgent objects created while requests run

----------------------------------------------------------------------------
(* Python built-ins on strings and lists *)

NL == "\n"
SP == " "

Min(a, b) == IF a < b THEN a ELSE b
Max(a, b) == IF a > b THEN a ELSE b

\* str.isspace of one character (the whitespace str.split() splits on)
IsSpace(c) == c \in {" ", "\n", "\t"}

Abs(x) == IF x < 0 THEN 0 - x ELSE x

\* of a non-empty set of positions, the one nearest to the middle of lo..hi
\* (the leftmost of two equally near)
Middle(S, lo, hi) ==
    CHOOSE p \in S : \A q \in S :
        \/ Abs(2 * p - (lo + hi)) < Abs(2 * q - (lo + hi))
        \/ Abs(2 * p - (lo + hi)) = Abs(2 * q - (lo + hi)) /\ p <= q

\* str.split() of s[lo..hi]: the maximal runs of non-whitespace characters in
\* order, no empty token (a whitespace character separates what is left of it
\* from what is right of it)
RECURSIVE SplitRange(_, _, _)
SplitRange(s, lo, hi) ==
    LET spaces == {i \in lo..hi : IsSpace(s[i])}
    IN  IF spaces = {}
        THEN IF lo > hi THEN <<>> ELSE <<SubSeq(s, lo, hi)>>
        ELSE LET p == Middle(spaces, lo, hi)
             IN  SplitRange(s, lo, p - 1) \o SplitRange(s, p + 1, hi)

\* str.split()
Split(s) == SplitRange(s, 1, Len(s))

\* str.split(sep) of s[lo..hi] for a one-character separator: the pieces
\* between consecutive separators, empty pieces kept
RECURSIVE SplitOnRange(_, _, _, _)
SplitOnRange(s, sep, lo, hi) ==
    LET seps == {i \in lo..hi : s[i] = sep}
    IN  IF seps = {}
        THEN <<SubSeq(s, lo, hi)>>
        ELSE LET p == Middle(seps, lo, hi)
             IN  SplitOnRange(s, sep, lo, p - 1) \o SplitOnRange(s, sep, p + 1, hi)

\* str.split(sep)
SplitOn(s, sep) == SplitOnRange(s, sep, 1, Len(s))

\* sep.join(parts[lo..hi])
RECURSIVE JoinRange(_, _, _, _)
JoinRange(parts, sep, lo, hi) ==
    IF lo > hi THEN <<>>
    ELSE IF lo = hi THEN parts[lo]
    ELSE LET mid == (lo + hi) \div 2
         IN  JoinRange(parts, sep, lo, mid) \o sep \o JoinRange(parts, sep, mid + 1, hi)

\* sep.join(parts)
Join(parts, sep) == JoinRange(parts, sep, 1, Len(parts))

\* str.lower() of one character
LowerChar(c) ==
    CASE c = "A" -> "a"
      [] c = "B" -> "b"
      [] c = "C" -> "c"
      [] OTHER -> c

\* str.lower()
Lower(s) == [i \in 1..Len(s) |-> LowerChar(s[i])]

\* needle in hay (substring test; the empty string is in every string)
IsSubstr(needle, hay) ==
    \E i \in 0..(Len(hay) - Len(needle)) : SubSeq(hay, i + 1, i + Len(needle)) = needle

\* one bound of a slice: negative counts from the end, then clamped to 0..len
SliceIndex(k, n) == IF k < 0 THEN Max(k + n, 0) ELSE Min(k, n)

\* seq[a:b]
PySlice(seq, a, b) ==
    SubSeq(seq, SliceIndex(a, Len(seq)) + 1, SliceIndex(b, Len(seq)))

\* list(range(start, stop, step)) for step # 0
RECURSIVE Range(_, _, _)
Range(start, stop, step) ==
    IF (step > 0 /\ start < stop) \/ (step < 0 /\ start > stop)
    THEN <<start>> \o Range(start + step, stop, step)
    ELSE <<>>

\* set(seq)
ToSet(seq) == {seq[i] : i \in DOMAIN seq}

----------------------------------------------------------------------------
(* DocumentProcessor.process_document *)

\* a step that is one too long
ChunkStepOffByOne(size, ov) == size - ov + 1

\* step = self.chunk_size - self.overlap
ChunkStep(size, ov) == size - ov

\* the chunks built by the for loop over range(0, max(len(tokens) - overlap, 0), step)
ChunkList(tokens, size, ov) ==
    LET starts == Range(0, Max(Len(tokens) - ov, 0), ChunkStep(size, ov))
    IN  [k \in 1..Len(starts) |-> Join(PySlice(tokens, starts[k], starts[k] + size), <<SP>>)]

\* process_document(text): a list of chunks, or the ValueError raised by range()
\* when the step is zero
process_document(text, size, ov) ==
    IF text = <<>>
    THEN [kind |-> "ok", chunks |-> <<>>]
    ELSE IF ChunkStep(size, ov) = 0
         THEN [kind |-> "ValueError", chunks |-> <<>>]
         ELSE [kind |-> "ok", chunks |-> ChunkList(Split(text), size, ov)]

\* the documents given to process_document
TextChars == {"a", "b", " "}

RECURSIVE StringsUpTo(_, _)
StringsUpTo(chars, n) ==
    IF n = 0 THEN {<<>>}
    ELSE LET shorter == StringsUpTo(chars, n - 1)
         IN  shorter \cup {Append(s, c) : s \in {t \in shorter : Len(t) = n - 1}, c \in chars}

Texts == StringsUpTo(TextChars, MaxTextLen)

ConfigValues == (0 - 1)..MaxChunkSize

NotCalled == [kind |-> "none", chunks |-> <<>>]

\* one call of process_document on a processor that is not in a call
ProcessDocument(text) ==
    /\ dp_out = NotCalled
    /\ doc_text' = text
    /\ dp_out' = process_document(text, chunk_size, overlap)
    /\ UNCHANGED <<chunk_size, overlap>>
    /\ UNCHANGED <<searchVars, restVars>>

----------------------------------------------------------------------------
(* SimpleRAGAgent.search_knowledge *)

ContextBefore == 3   \* start = max(0, i-3)
ContextEnd == 4      \* end = min(len(lines), i+4)
TopN == 4            \* relevant_sections[:4]
MaxReturned == 3     \* unique_matches[:3]

NoKnowledgeBase ==
    <<"N", "o", " ", "k", "n", "o", "w", "l", "e", "d", "g", "e", " ", "b",
      "a", "s", "e", " ", "a", "v", "a", "i", "l", "a", "b", "l", "e">>

NoRelevantInformation ==
    <<"N", "o", " ", "r", "e", "l", "e", "v", "a", "n", "t", " ", "i", "n",
      "f", "o", "r", "m", "a", "t", "i", "o", "n", " ", "f", "o", "u", "n",
      "d", " ", "i", "n", " ", "k", "n", "o", "w", "l", "e", "d", "g", "e",
      " ", "b", "a", "s", "e">>

\* '\n\n---\n\n'
Separator == <<NL, NL, "-", "-", "-", NL, NL>>

\* for word in query_words: if word in line_lower: score += 1
RECURSIVE WordMatches(_, _)
WordMatches(query_words, line_lower) ==
    IF query_words = <<>> THEN 0
    ELSE (IF IsSubstr(Head(query_words), line_lower) THEN 1 ELSE 0)
         + WordMatches(Tail(query_words), line_lower)

\* a phrase bonus of 1 whatever the number of query words
PhraseBonusOne(query_lower, query_words, line_lower) ==
    IF IsSubstr(query_lower, line_lower) THEN 1 ELSE 0

\* a phrase bonus that is never less than 1
PhraseBonusAtLeastOne(query_lower, query_words, line_lower) ==
    IF IsSubstr(query_lower, line_lower) THEN Max(1, Len(query_words)) ELSE 0

\* a phrase bonus given only to a line that is the query
PhraseBonusWholeLine(query_lower, query_words, line_lower) ==
    IF query_lower = line_lower THEN Len(query_words) ELSE 0

\* if query_lower in line_lower: score += len(query_words)
PhraseBonus(query_lower, query_words, line_lower) ==
    IF IsSubstr(query_lower, line_lower) THEN Len(query_words) ELSE 0

\* the score the loop body gives one line
Score(line, q) ==
    LET query_lower == Lower(q)
        query_words == Split(query_lower)
        line_lower == Lower(line)
    IN  WordMatches(query_words, line_lower)
        + PhraseBonus(query_lower, query_words, line_lower)

\* a window that ends one line earlier
WindowNarrow(lines, i) ==
    Join(PySlice(lines, Max(0, i - ContextBefore), Min(Len(lines), i + ContextBefore)),
         <<NL>>)

\* '\n'.join(lines[max(0, i-3) : min(len(lines), i+4)]), i counted from 0
Window(lines, i) ==
    Join(PySlice(lines, Max(0, i - ContextBefore), Min(Len(lines), i + ContextEnd)),
         <<NL>>)

\* the for loop over enumerate(lines): one (score, context, i) per line with score > 0
RECURSIVE SectionsFrom(_, _, _, _)
SectionsFrom(lines, q, i, acc) ==
    IF i >= Len(lines) THEN acc
    ELSE LET score == Score(lines[i + 1], q)
         IN  SectionsFrom(lines, q, i + 1,
                 IF score > 0
                 THEN Append(acc, [score |-> score, context |-> Window(lines, i), i |-> i])
                 ELSE acc)

\* a sort that puts an element before the earlier elements of equal score
InsertByScoreUnstable(sorted, x) ==
    LET before == {k \in 1..Len(sorted) : sorted[k].score > x.score}
        n == Cardinality(before)
    IN  SubSeq(sorted, 1, n) \o <<x>> \o SubSeq(sorted, n + 1, Len(sorted))

\* list.sort(key=score, reverse=True) is stable: an element goes behind every
\* element of greater or equal score that came before it
InsertByScore(sorted, x) ==
    LET before == {k \in 1..Len(sorted) : sorted[k].score >= x.score}
        n == Cardinality(before)
    IN  SubSeq(sorted, 1, n) \o <<x>> \o SubSeq(sorted, n + 1, Len(sorted))

RECURSIVE SortFrom(_, _, _)
SortFrom(sections, k, sorted) ==
    IF k > Len(sections) THEN sorted
    ELSE SortFrom(sections, k + 1, InsertByScore(sorted, sections[k]))

\* a sort that walks the list from its end, so that equal scores change places
SortByScoreBackwards(sections) ==
    SortFrom([k \in 1..Len(sections) |-> sections[Len(sections) + 1 - k]], 1, <<>>)

\* relevant_sections.sort(key=lambda x: x[0], reverse=True)
SortByScore(sections) == SortFrom(sections, 1, <<>>)

\* every sorted section taken as a candidate
TopMatchesAll(sorted) == [k \in 1..Len(sorted) |-> sorted[k].context]

\* [section[1] for section in relevant_sections[:4]]
TopMatches(sorted) ==
    LET top == PySlice(sorted, 0, TopN)
    IN  [k \in 1..Len(top) |-> top[k].context]

\* the largest power of two that is <= x, for x >= 1
RECURSIVE Pow2Floor(_)
Pow2Floor(x) == IF x < 2 THEN 1 ELSE 2 * Pow2Floor(x \div 2)

\* n * 0.7 in IEEE-754 double arithmetic is below the exact product 7n/10 exactly
\* when that product is an integer 7m (n = 10m) and 4m > 2^floor(log2(7m)): the
\* double 0.7 is (0.7 * 2^53 - 0.4) / 2^53, so n * 0.7 = 7m - 4m / 2^53 before
\* rounding, and half a unit in the last place of 7m is 2^floor(log2(7m)) / 2^53.
\* The first such n are 90, 170, 180, 330.
RoundsBelow(n) ==
    /\ n > 0
    /\ n % 10 = 0
    /\ 4 * (n \div 10) > Pow2Floor(7 * (n \div 10))

\* k > n * 0.7 as Python evaluates it, for integers k, n >= 0
GreaterThan07(k, n) ==
    IF RoundsBelow(n) THEN 10 * k >= 7 * n ELSE 10 * k > 7 * n

\* the test with a threshold of 0.8
IsDuplicate08(match, existing) ==
    10 * Cardinality(ToSet(Split(match)) \cap ToSet(Split(existing)))
        > 8 * Len(Split(match))

\* len(set(match.split()) & set(existing.split())) > len(match.split()) * 0.7
IsDuplicate(match, existing) ==
    GreaterThan07(Cardinality(ToSet(Split(match)) \cap ToSet(Split(existing))),
                  Len(Split(match)))

\* a loop that compares a candidate with every candidate before it, accepted or not
RECURSIVE DedupAgainstAll(_, _, _)
DedupAgainstAll(top, k, acc) ==
    IF k > Len(top) THEN acc
    ELSE LET is_duplicate ==
                 \E e \in 1..(k - 1) : IsDuplicate(top[k], top[e])
         IN  DedupAgainstAll(top, k + 1, IF is_duplicate THEN acc ELSE Append(acc, k))

\* the deduplication loop; acc holds the positions in top_matches of the
\* elements appended to unique_matches so far
RECURSIVE DedupFrom(_, _, _)
DedupFrom(top, k, acc) ==
    IF k > Len(top) THEN acc
    ELSE LET is_duplicate ==
                 \E e \in 1..Len(acc) : IsDuplicate(top[k], top[acc[e]])
         IN  DedupFrom(top, k + 1, IF is_duplicate THEN acc ELSE Append(acc, k))

\* search_knowledge(query) on a knowledge base, with its local variables
search_knowledge(kb, q) ==
    IF kb = <<>>
    THEN [relevant |-> <<>>, sorted |-> <<>>, top |-> <<>>, accepted |-> <<>>,
          unique |-> <<>>, result |-> NoKnowledgeBase]
    ELSE LET lines == SplitOn(kb, NL)
             relevant == SectionsFrom(lines, q, 0, <<>>)
             sorted == SortByScore(relevant)
             top == TopMatches(sorted)
             acc == DedupFrom(top, 1, <<>>)
             unique == [k \in 1..Len(acc) |-> top[acc[k]]]
         IN  [relevant |-> relevant, sorted |-> sorted, top |-> top,
              accepted |-> acc, unique |-> unique,
              result |-> IF relevant # <<>>
                         THEN Join(PySlice(unique, 0, MaxReturned), Separator)
                         ELSE NoRelevantInformation]

----------------------------------------------------------------------------
(* The knowledge bases and queries explored *)

Letters == <<"a", "b", "d", "e", "f", "g", "h", "i", "j", "k">>
Digits == <<"0", "1", "2", "3", "4", "5", "6", "7", "8", "9">>

\* the word of line i: "Ca", "cb", "cd", ... (all different, all containing "c")
Tok(i) == <<IF i = 0 THEN "C" ELSE "c", Letters[i + 1]>>

\* the two-digit word for k in 10..99 (no letter in it)
Num(k) == <<Digits[(k \div 10) + 1], Digits[(k % 10) + 1]>>

\* a line of the words Num(from) .. Num(to)
NumLine(from, to) == Join([k \in 1..(to - from + 1) |-> Num(from + k - 1)], <<SP>>)

\* line i of a generated knowledge base: empty, one word, or its word and the next line's
LineChoices(i) == {<<>>, Tok(i), Tok(i) \o <<SP>> \o Tok(i + 1)}

RECURSIVE LinesOfLen(_)
LinesOfLen(n) ==
    IF n = 0 THEN {<<>>}
    ELSE {Append(ls, l) : ls \in LinesOfLen(n - 1), l \in LineChoices(n - 1)}

GeneratedCorpora == UNION {{Join(ls, <<NL>>) : ls \in LinesOfLen(n)} : n \in 0..MaxLines}

\* Two scoring lines whose windows hold 7m and 10m words, the first 7m shared:
\*   line 0: "Ca" and 7m - 2 numbers, line 1: "cb", lines 2-3 empty, line 4: 3m numbers
BoundaryCorpus(m) ==
    Join(<<Tok(0) \o <<SP>> \o NumLine(10, 10 + (7 * m - 2) - 1),
           Tok(1), <<>>, <<>>,
           NumLine(10 + (7 * m - 2), 10 + (10 * m - 2) - 1)>>, <<NL>>)

Corpora == GeneratedCorpora \cup {BoundaryCorpus(1), BoundaryCorpus(9)}

Queries ==
    { <<"c">>,
      <<"c", "A", " ", "c", "b">>,
      <<"c", "d", " ", "c">>,
      <<"c", " ", "c">>,
      <<" ">>,
      <<>> }

NoQuery == "none"

\* line i of a knowledge base whose windows are examined: a word that holds
\* "c", or a number
WindowLineChoices(i) == {Tok(i), Num(10 + i)}

RECURSIVE WindowLinesOfLen(_)
WindowLinesOfLen(n) ==
    IF n = 0 THEN {<<>>}
    ELSE {Append(ls, l) : ls \in WindowLinesOfLen(n - 1), l \in WindowLineChoices(n - 1)}

WindowCorpora ==
    UNION {{Join(ls, <<NL>>) : ls \in WindowLinesOfLen(n)} : n \in 1..MaxWindowLines}

\* knowledge bases that hold a line and the same line with a word put in front
\* of it, behind it, or both
GrownLines == {<<>>, Num(11), Tok(1), Tok(0) \o <<SP>> \o Tok(1), Tok(2) \o <<SP, "c">>}

GrowthWords == {<<"c">>, Tok(0), Tok(1), Tok(2)}

GrownCorpora ==
    {Join(<<b, b \o <<SP>> \o w, w \o <<SP>> \o b, w \o b \o <<SP>> \o w>>, <<NL>>) :
        b \in GrownLines, w \in GrowthWords}

SelectCorpora == WindowCorpora \cup GrownCorpora

----------------------------------------------------------------------------
(* SimpleRAGAgent.clean_for_voice *)

VoiceLimit == 500    \* if len(text) > 500: text = text[:500] + "..."

Ellipsis == <<".", ".", ".">>

\* the grave accent character (a string of the module cannot hold it)
Backtick == "GRAVE"

\* the position where the run of characters c that holds position i begins
RECURSIVE RunStart(_, _, _)
RunStart(s, c, i) == IF i > 1 /\ s[i - 1] = c THEN RunStart(s, c, i - 1) ELSE i

\* the position where the run of characters c that holds position i ends
RECURSIVE RunEnd(_, _, _)
RunEnd(s, c, i) == IF i < Len(s) /\ s[i + 1] = c THEN RunEnd(s, c, i + 1) ELSE i

\* position i of s is inside one of the non-overlapping occurrences, found from
\* left to right, of the string of k characters c: in a run of L characters c
\* the occurrences cover its first (L div k) * k positions
InOccurrence(s, c, k, i) ==
    /\ s[i] = c
    /\ LET from == RunStart(s, c, i)
           L == RunEnd(s, c, i) - from + 1
       IN  i - from < (L \div k) * k

\* s[lo..hi] with every occurrence of k characters c deleted
RECURSIVE DeleteRange(_, _, _, _, _)
DeleteRange(s, c, k, lo, hi) ==
    IF lo > hi THEN <<>>
    ELSE IF lo = hi THEN (IF InOccurrence(s, c, k, lo) THEN <<>> ELSE <<s[lo]>>)
    ELSE LET mid == (lo + hi) \div 2
         IN  DeleteRange(s, c, k, lo, mid) \o DeleteRange(s, c, k, mid + 1, hi)

\* text.replace(c * k, '')
Delete(s, c, k) == DeleteRange(s, c, k, 1, Len(s))

\* s[lo..hi] with every newline replaced by '. '
RECURSIVE NewlinesRange(_, _, _)
NewlinesRange(s, lo, hi) ==
    IF lo > hi THEN <<>>
    ELSE IF lo = hi THEN (IF s[lo] = NL THEN <<".", SP>> ELSE <<s[lo]>>)
    ELSE LET mid == (lo + hi) \div 2
         IN  NewlinesRange(s, lo, mid) \o NewlinesRange(s, mid + 1, hi)

\* a text whose newlines stay
KeepNewlines(s) == s

\* text.replace('\n', '. ')
ReplaceNewlines(s) == NewlinesRange(s, 1, Len(s))

\* the first position from i on that holds no whitespace (Len(s) + 1 if none)
RECURSIVE SkipSpaces(_, _)
SkipSpaces(s, i) == IF i <= Len(s) /\ IsSpace(s[i]) THEN SkipSpaces(s, i + 1) ELSE i

\* the last position up to i that holds no whitespace (0 if none)
RECURSIVE SkipSpacesBack(_, _)
SkipSpacesBack(s, i) == IF i >= 1 /\ IsSpace(s[i]) THEN SkipSpacesBack(s, i - 1) ELSE i

\* a result that keeps the whitespace around the text
NoStrip(s) == s

\* str.strip()
Strip(s) == SubSeq(s, SkipSpaces(s, 1), SkipSpacesBack(s, Len(s)))

\* clean_for_voice(text)
clean_for_voice(text) ==
    LET t1 == Delete(Delete(text, "*", 2), "*", 1)
        t2 == Delete(Delete(t1, Backtick, 3), Backtick, 1)
        t3 == ReplaceNewlines(t2)
        t4 == IF Len(t3) > VoiceLimit
              THEN PySlice(t3, 0, VoiceLimit) \o Ellipsis
              ELSE t3
    IN  Strip(t4)

\* the model responses given to clean_for_voice: markup and whitespace around a
\* run of letters that is empty, short, or about as long as the limit
Fill(n) == [i \in 1..n |-> "a"]

FillCounts == {0, 1} \cup ((VoiceLimit - 2 * MaxMarkup)..(VoiceLimit + 1))

VoiceEndings ==
    {<<>>, <<SP>>, <<NL>>, <<SP, NL>>, <<Backtick>>, <<Backtick, Backtick, Backtick, SP>>,
     <<Backtick, "*", Backtick, Backtick, "b">>, <<Backtick, "*", NL, "*", "b">>}

VoiceTexts ==
    {pre \o Fill(n) \o post :
        pre \in StringsUpTo({SP, "*", NL}, MaxMarkup),
        n \in FillCounts,
        post \in VoiceEndings}

NotCleaned == "none"

VoiceIdle ==
    /\ voice_text = <<>>
    /\ voice_out = NotCleaned

----------------------------------------------------------------------------
(* SimpleRAGAgent.get_advanced_prompt: the templates *)

\* the opening paragraph of the template of one branch
RoleFraming(branch) ==
    CASE branch = "enhanced" ->
          <<"You are an advanced AI assistant with enhanced contextual understanding. You have access to a comprehensive knowledge base and should provide detailed, nuanced responses.">>
      [] branch = "analytical" ->
          <<"You are a specialized analytical AI assistant focused on systematic analysis and structured reasoning. Break down complex problems methodically.">>
      [] branch = "creative" ->
          <<"You are a creative and innovative AI assistant that thinks beyond conventional boundaries. Use imaginative approaches while maintaining accuracy.">>
      [] branch = "simple" ->
          <<"You are an intelligent AI assistant with access to a knowledge base. Please provide helpful, accurate, and detailed responses.">>

\* the line that opens the context block
ContextHeader(branch) ==
    CASE branch = "enhanced" ->
          <<"KNOWLEDGE BASE CONTEXT:">>
      [] branch = "analytical" ->
          <<"KNOWLEDGE BASE CONTEXT:">>
      [] branch = "creative" ->
          <<"KNOWLEDGE BASE CONTEXT:">>
      [] branch = "simple" ->
          <<"CONTEXT FROM KNOWLEDGE BASE:">>

\* the label in front of the user input
QueryLabel(branch) ==
    CASE branch = "enhanced" ->
          <<"USER QUERY: ">>
      [] branch = "analytical" ->
          <<"ANALYTICAL QUERY: ">>
      [] branch = "creative" ->
          <<"CREATIVE CHALLENGE: ">>
      [] branch = "simple" ->
          <<"USER QUESTION: ">>

\* the instruction block
Instructions(branch) ==
    CASE branch = "enhanced" ->
          <<"ENHANCED INSTRUCTIONS:",
            NL,
            "- Analyze the query for implicit requirements and context",
            NL,
            "- Use multi-layered reasoning to connect information across different sources",
            NL,
            "- Provide comprehensive answers with supporting evidence",
            NL,
            "- Consider alternative interpretations and edge cases",
            NL,
            "- Structure your response with clear reasoning chains",
            NL,
            "- When relevant, explain the methodology behind your conclusions",
            NL,
            "- Identify any limitations or assumptions in your response">>
      [] branch = "analytical" ->
          <<"ANALYTICAL FRAMEWORK:",
            NL,
            "1. PROBLEM DECOMPOSITION:",
            NL,
            "   - Identify key components and relationships",
            NL,
            "   - Determine relevant variables and constraints",
            NL,
            "   - Map dependencies and causal relationships",
            NL,
            NL,
            "2. EVIDENCE ANALYSIS:",
            NL,
            "   - Evaluate source credibility and relevance",
            NL,
            "   - Identify patterns, trends, and anomalies",
            NL,
            "   - Cross-reference multiple data points",
            NL,
            NL,
            "3. SYSTEMATIC REASONING:",
            NL,
            "   - Apply logical frameworks and methodologies",
            NL,
            "   - Consider multiple perspectives and scenarios",
            NL,
            "   - Validate conclusions against available evidence",
            NL,
            NL,
            "4. SYNTHESIS AND RECOMMENDATIONS:",
            NL,
            "   - Integrate findings into coherent insights",
            NL,
            "   - Propose actionable recommendations",
            NL,
            "   - Identify areas requiring further investigation">>
      [] branch = "creative" ->
          <<"CREATIVE INSTRUCTIONS:",
            NL,
            "- Explore unconventional angles and perspectives",
            NL,
            "- Generate novel connections between seemingly unrelated concepts",
            NL,
            "- Use analogies, metaphors, and creative explanations",
            NL,
            "- Propose innovative solutions or approaches",
            NL,
            "- Think outside traditional frameworks while remaining grounded in facts",
            NL,
            "- Encourage exploration of possibilities and \"what-if\" scenarios",
            NL,
            "- Balance creativity with practical applicability">>
      [] branch = "simple" ->
          <<"INSTRUCTIONS:",
            NL,
            "- Use the provided context when relevant to answer the question",
            NL,
            "- If the context doesn't contain relevant information, use your general knowledge",
            NL,
            "- Be comprehensive but concise",
            NL,
            "- Provide specific details when available",
            NL,
            "- If you're unsure about something, say so rather than guessing">>

\* the last line of the template
ResponseCue(branch) ==
    CASE branch = "enhanced" ->
          <<"Please provide a thorough, well-reasoned response:">>
      [] branch = "analytical" ->
          <<"Provide your analytical response following this structured approach:">>
      [] branch = "creative" ->
          <<"Let your creativity flow while providing valuable insights:">>
      [] branch = "simple" ->
          <<"RESPONSE:">>

\* a template that gives the instructions before the context
PromptTemplateInstructionsFirst(branch, user_input, ctx) ==
    RoleFraming(branch) \o <<NL, NL>> \o Instructions(branch)
    \o <<NL, NL>> \o ContextHeader(branch) \o <<NL>> \o ctx
    \o <<NL, NL>> \o QueryLabel(branch) \o user_input
    \o <<NL, NL>> \o ResponseCue(branch)

\* the f-string of one branch with context and user_input filled in
PromptTemplate(branch, user_input, ctx) ==
    RoleFraming(branch) \o <<NL, NL>> \o ContextHeader(branch) \o <<NL>> \o ctx
    \o <<NL, NL>> \o QueryLabel(branch) \o user_input
    \o <<NL, NL>> \o Instructions(branch) \o <<NL, NL>> \o ResponseCue(branch)

\* a selection whose last branch is the enhanced template
get_advanced_prompt_else_enhanced(user_input, ctx, strategy) ==
    IF strategy = "analytical" THEN PromptTemplate("analytical", user_input, ctx)
    ELSE IF strategy = "creative" THEN PromptTemplate("creative", user_input, ctx)
    ELSE IF strategy = "simple" THEN PromptTemplate("simple", user_input, ctx)
    ELSE PromptTemplate("enhanced", user_input, ctx)

\* get_advanced_prompt(user_input, ctx, strategy): if / elif / elif / else
get_advanced_prompt(user_input, ctx, strategy) ==
    IF strategy = "enhanced" THEN PromptTemplate("enhanced", user_input, ctx)
    ELSE IF strategy = "analytical" THEN PromptTemplate("analytical", user_input, ctx)
    ELSE IF strategy = "creative" THEN PromptTemplate("creative", user_input, ctx)
    ELSE PromptTemplate("simple", user_input, ctx)

\* the f-string of run(): the text of the simple branch
RunPrompt(user_input, ctx) == PromptTemplate("simple", user_input, ctx)

----------------------------------------------------------------------------
(* SimpleRAGAgent.run, SimpleRAGAgent.run_advanced and app.chat *)

FastModel == "llama3.2:1b"
StandardModel == "mistral:7b"
FastContext == 8192          \* num_ctx=8192 if fast_mode
StandardContext == 16384     \* else 16384
DefaultTemperature == 3      \* temperature=0.3, in tenths

\* the OllamaLLM built by SimpleRAGAgent.__init__(fast_mode)
AgentLLM(fast_mode) ==
    [model |-> IF fast_mode THEN FastModel ELSE StandardModel,
     num_ctx |-> IF fast_mode THEN FastContext ELSE StandardContext,
     temperature |-> DefaultTemperature]

\* the OllamaLLM built by run_advanced
AdvancedLLM(temperature, max_context) ==
    [model |-> StandardModel, num_ctx |-> max_context, temperature |-> temperature]

NoException == [type |-> "none", errno |-> "None", msg |-> <<>>]

\* the exceptions invoke() raises: type, errno attribute and str(e)
Exceptions ==
    { [type |-> "ConnectionRefusedError", errno |-> "ECONNREFUSED",
       msg |-> <<"[Errno 111] Connection refused">>],
      [type |-> "OSError", errno |-> "ECONNREFUSED",
       msg |-> <<"[Errno 111] Connect call failed">>],
      [type |-> "ValueError", errno |-> "None",
       msg |-> <<"model not found">>] }

\* the texts invoke() returns
ModelResponses == {<<"a">>, <<SP, "*", "b", "*", NL>>}

\* what one invoke() does
Outcomes ==
    {[kind |-> "ok", text |-> t, exc |-> NoException] : t \in ModelResponses}
    \cup {[kind |-> "raise", text |-> <<>>, exc |-> e] : e \in Exceptions}

NotInvoked == [kind |-> "none", text |-> <<>>, exc |-> NoException]

Returns(value) == [kind |-> "return", value |-> value, exc |-> NoException]
Raises(e) == [kind |-> "raise", value |-> <<>>, exc |-> e]
NoOutcome == [kind |-> "none", value |-> <<>>, exc |-> NoException]

\* str(e)
Str(e) == e.msg

\* a handler that lets the exception through
run_except_reraise(e) == Raises(e)

\* run: except Exception as e
run_except(e) ==
    Returns(<<"I encountered a technical error: ">> \o Str(e)
            \o <<". Please try again or contact support.">>)

\* the message of run_advanced for a refused connection (the source writes its
\* apostrophes as U+2019)
UnableToConnect ==
    <<"I'm unable to connect to the local LLM server. ",
      "Please ensure it's running and accessible, then try again or contact support.">>

\* run_advanced: except Exception as e
run_advanced_except(e) ==
    IF e.type = "ConnectionRefusedError" \/ e.errno = "ECONNREFUSED"
    THEN Returns(UnableToConnect)
    ELSE Returns(<<"I encountered a technical error in advanced mode: ">> \o Str(e)
                 \o <<". Please try again or contact support.">>)

\* run(user_input) of an agent with completion service llm, when invoke() does o
run(llm, search, user_input, o) ==
    [backend |-> llm,
     prompt |-> RunPrompt(user_input, search.result),
     out |-> IF o.kind = "ok" THEN Returns(clean_for_voice(o.text))
             ELSE run_except(o.exc)]

\* run_advanced(user_input, temperature, max_context, prompt_strategy)
run_advanced(search, user_input, temperature, max_context, prompt_strategy, o) ==
    [backend |-> AdvancedLLM(temperature, max_context),
     prompt |-> get_advanced_prompt(user_input, search.result, prompt_strategy),
     out |-> IF o.kind = "ok" THEN Returns(clean_for_voice(o.text))
             ELSE run_advanced_except(o.exc)]

\* data.get(key, default) on a JSON body: the keys present, and their values
Get(data, key, default) == IF key \in data.keys THEN data.val[key] ELSE default

\* a JSON body with the keys `keys`
Body(keys, message, mode, temperature, max_context, prompt_strategy, response_mode) ==
    [keys |-> keys,
     val |-> [message |-> IF "message" \in keys THEN message ELSE <<>>,
              mode |-> IF "mode" \in keys THEN mode ELSE "",
              temperature |-> IF "temperature" \in keys THEN temperature ELSE 0,
              max_context |-> IF "max_context" \in keys THEN max_context ELSE 0,
              prompt_strategy |-> IF "prompt_strategy" \in keys THEN prompt_strategy ELSE "",
              response_mode |-> IF "response_mode" \in keys THEN response_mode ELSE ""]]

Strategies == {"simple", "enhanced", "analytical", "creative"}

\* the bodies sent to /chat
Bodies ==
    {Body(keys, message, mode, temperature, max_context, prompt_strategy, response_mode) :
        keys \in {{"message"} \cup k : k \in SUBSET {"mode", "max_context", "prompt_strategy",
                                                     "response_mode"}},
        message \in {<<>>, <<"c">>, <<"c", "b">>},
        mode \in {"simple", "advanced"},
        temperature \in {0},
        max_context \in {2048},
        prompt_strategy \in Strategies \cup {"bogus", "ENHANCED"},
        response_mode \in {"fast", "standard"}}

NoRequest == Body({}, <<>>, "", 0, 0, "", "")

PleaseProvide == <<"Please provide a message.">>

ChatIdle ==
    /\ request = NoRequest
    /\ answer_path = "none"
    /\ backend = AgentLLM(FALSE)
    /\ prompt = <<>>
    /\ llm_outcome = NotInvoked
    /\ agent_out = NoOutcome
    /\ response = <<>>

\* the fast_mode of the agent that answers an advanced request: a fast agent is
\* built for 'fast', a standard one for 'standard', else the agent is kept
AgentForProfile(fast_mode, response_mode) ==
    IF response_mode = "fast" /\ ~fast_mode THEN TRUE
    ELSE IF response_mode = "standard" /\ fast_mode THEN FALSE
    ELSE fast_mode

\* chat: the JSON answer for the outcome of the agent call
ChatResponse(out) ==
    IF out.kind = "return" THEN out.value ELSE <<"Error: ">> \o Str(out.exc)

----------------------------------------------------------------------------
(* SimpleRAGAgent.load_knowledge_base and extract_pdf_text *)

\* s.endswith(suffix)
EndsWith(s, suffix) ==
    /\ Len(s) >= Len(suffix)
    /\ SubSeq(s, Len(s) - Len(suffix) + 1, Len(s)) = suffix

DotTxt == <<".", "t", "x", "t">>
DotPdf == <<".", "p", "d", "f">>

\* f"=== {filename} ===\n"
Header(filename) == <<"=", "=", "=", SP>> \o filename \o <<SP, "=", "=", "=", NL>>

\* text += page.extract_text() + "\n", for every page
RECURSIVE PagesText(_, _)
PagesText(pages, k) ==
    IF k > Len(pages) THEN <<>>
    ELSE pages[k] \o <<NL>> \o PagesText(pages, k + 1)

\* extract_pdf_text(pdf_path): the text of the pages, or "" when opening or
\* extracting raised
extract_pdf_text(file) ==
    IF file.fault # "none" THEN <<>> ELSE PagesText(file.pages, 1)

\* a handler that throws away what was loaded before the file that failed
LoadFileDropping(file, content) ==
    IF file.fault # "none" THEN <<>>
    ELSE IF EndsWith(file.name, DotTxt)
    THEN content \o Header(file.name) \o file.pages[1] \o <<NL, NL>>
    ELSE IF EndsWith(file.name, DotPdf) /\ Strip(PagesText(file.pages, 1)) # <<>>
    THEN content \o Header(file.name) \o PagesText(file.pages, 1) \o <<NL, NL>>
    ELSE content

\* the body of the loop over os.listdir for one file: knowledge_content after it.
\* A .txt file whose open() raises adds nothing; one whose read() raises has
\* already added its header.
LoadFile(file, content) ==
    IF EndsWith(file.name, DotTxt)
    THEN IF file.fault = "open" THEN content
         ELSE IF file.fault = "read" THEN content \o Header(file.name)
         ELSE content \o Header(file.name) \o file.pages[1] \o <<NL, NL>>
    ELSE IF EndsWith(file.name, DotPdf)
    THEN LET pdf_text == extract_pdf_text(file)
         IN  IF Strip(pdf_text) # <<>>
             THEN content \o Header(file.name) \o pdf_text \o <<NL, NL>>
             ELSE content
    ELSE content

\* the loop over os.listdir('doccydocs')
RECURSIVE LoadFiles(_, _, _)
LoadFiles(files, k, content) ==
    IF k > Len(files) THEN content
    ELSE LoadFiles(files, k + 1, LoadFile(files[k], content))

\* the text of knowledge_base.txt
MainText == <<"K">>

\* load_knowledge_base(): the corpus, or the exception of the unguarded read
\* of knowledge_base.txt
load_knowledge_base(main, folder_exists, files) ==
    IF main = "unreadable"
    THEN [kind |-> "raise", corpus |-> <<>>]
    ELSE [kind |-> "ok",
          corpus |-> LoadFiles(IF folder_exists THEN files ELSE <<>>, 1,
                               IF main = "readable" THEN MainText \o <<NL, NL>> ELSE <<>>)]

\* the files a document folder can hold: name, what fails on it ("none",
\* "open", "read" or "extract"), and its text (the pages of a PDF)
FolderFiles ==
    {[name |-> <<"a">> \o DotTxt, fault |-> f, pages |-> <<<<"x">>>>] :
        f \in {"none", "open", "read"}}
    \cup {[name |-> <<"b">> \o DotTxt, fault |-> f, pages |-> <<<<"y", SP, "z">>>>] :
        f \in {"none", "read"}}
    \cup {[name |-> <<"c">> \o DotPdf, fault |-> f, pages |-> pg] :
        f \in {"none", "extract"}, pg \in {<<<<"p">>>>, <<<<SP>>>>, <<<<"p">>, <<"q">>>>}}
    \cup {[name |-> <<"d", ".", "m", "d">>, fault |-> "none", pages |-> <<<<"m">>>>]}

\* the listings of at most n files with different names
RECURSIVE Listings(_)
Listings(n) ==
    IF n = 0 THEN {<<>>}
    ELSE LET shorter == Listings(n - 1)
         IN  shorter \cup
             {Append(l, f) : l \in {t \in shorter : Len(t) = n - 1},
                             f \in FolderFiles}

DistinctNames(l) == \A i, j \in 1..Len(l) : i # j => l[i].name # l[j].name

NotLoaded == [kind |-> "none", corpus |-> <<>>]

LoadIdle ==
    /\ kb_file = "absent"
    /\ docs_exists = FALSE
    /\ docs = <<>>
    /\ load_out = NotLoaded

----------------------------------------------------------------------------
(* SmartRAGAgent (src/smart_rag_agent.py) *)

\* the attribute knowledge_base: absent until fallback_setup assigns it
Unset == [set |-> FALSE, text |-> <<>>]
SetTo(text) == [set |-> TRUE, text |-> text]

\* any(word in line.lower() for word in query_words)
AnyWordIn(query_words, line) ==
    \E k \in 1..Len(query_words) : IsSubstr(query_words[k], Lower(line))

\* [line.strip() for line in lines if any(...)]
RECURSIVE RelevantLines(_, _, _)
RelevantLines(lines, query_words, k) ==
    IF k > Len(lines) THEN <<>>
    ELSE (IF AnyWordIn(query_words, lines[k]) THEN <<Strip(lines[k])>> ELSE <<>>)
         \o RelevantLines(lines, query_words, k + 1)

NoAccess ==
    <<"I don't have access to any knowledge base to answer your question.">>

\* basic_search(query) when llm.invoke does o: the path taken and the answer
\* (an exception of invoke leaves basic_search); the prompt, built from the
\* first relevant lines, reaches only the completion service
basic_search(kb, q, o) ==
    IF ~kb.set \/ kb.text = <<>>
    THEN [path |-> "basic", answer |-> NoAccess, exc |-> NoException]
    ELSE LET query_words == Split(Lower(q))
             relevant_lines == RelevantLines(SplitOn(kb.text, NL), query_words, 1)
         IN  IF relevant_lines # <<>>
             THEN IF o.kind = "ok"
                  THEN [path |-> "basic", answer |-> o.text, exc |-> NoException]
                  ELSE [path |-> "raise", answer |-> <<>>, exc |-> o.exc]
             ELSE [path |-> "basic",
                   answer |-> <<"I couldn't find relevant information about '">> \o q
                              \o <<"' in my knowledge base.">>,
                   exc |-> NoException]

\* the answer of the vector path: the result, and the names of the first two sources
VectorAnswer(result, sources) ==
    result \o (IF sources # <<>>
               THEN <<NL, NL, "Sources:">>
                    \o PySlice(sources, 0, 2)
               ELSE <<>>)

\* run: except Exception as e
SmartError(e) ==
    [path |-> "error",
     answer |-> <<"I encountered an error processing your question: ">> \o Str(e),
     exc |-> NoException]

\* SmartRAGAgent.run(query): chain is what qa_chain.invoke does, o what
\* llm.invoke does in basic_search
smart_run(chain_set, kb, q, chain, o) ==
    IF chain_set
    THEN IF chain.kind = "ok"
         THEN [path |-> "vector", answer |-> VectorAnswer(chain.result, chain.sources),
               exc |-> NoException]
         ELSE SmartError(chain.exc)
    ELSE LET r == basic_search(kb, q, o)
         IN  IF r.path = "raise" THEN SmartError(r.exc) ELSE r

\* what qa_chain.invoke does: a result with its source documents, or an
\* exception of the vector store or the embedding service
ChainOutcomes ==
    {[kind |-> "ok", result |-> <<"r">>, sources |-> src, exc |-> NoException] :
        src \in {<<>>, <<"a.txt">>, <<"a.txt", "c.pdf">>, <<"a.txt", "c.pdf", "e.pdf">>}}
    \cup {[kind |-> "raise", result |-> <<>>, sources |-> <<>>, exc |-> e] :
        e \in Exceptions}

\* qa_chain.invoke is not called
NoChain == [kind |-> "none", result |-> <<>>, sources |-> <<>>, exc |-> NoException]

\* the corpora load_basic_knowledge_base returns
SmartCorpora ==
    {<<>>, Tok(0), Join(<<Tok(0) \o <<SP>> \o Tok(1), Tok(2)>>, <<NL>>),
     Join(<<<<SP>> \o Tok(1), <<>>, Tok(3)>>, <<NL>>), Join(<<Tok(2), Tok(3)>>, <<NL>>)}

NoSmartCall == [path |-> "none", answer |-> <<>>, exc |-> NoException]

SmartIdle ==
    /\ smart_query = NoQuery
    /\ vector_up = TRUE
    /\ smart_out = NoSmartCall

----------------------------------------------------------------------------
(* app.py: the global agent under concurrent requests (threaded=True) *)

\* the worker threads of the server
Workers == {"w1", "w2"}

Docs == 1..MaxDocs

\* a request thread that handles nothing
IdleWorker ==
    [pc |-> "idle", self |-> 0, new |-> 0, todo |-> {}, content |-> {},
     seen82 |-> Unset, seen91 |-> Unset, op |-> "none", fast |-> FALSE]

\* fast_mode and llm.model of a SimpleRAGAgent(fast_mode) after __init__
AgentCfg(fast_mode) == [fast_mode |-> fast_mode, model |-> AgentLLM(fast_mode).model]

\* the modes set_mode accepts
AppModes == {"simple", "advanced"}

\* a rebuild that assigns the corpus to the agent the global is bound to
RebuildTargetInPlace(new, current) == current

\* a rebuild that refills the agent created at start-up
RebuildTargetFirst(new, current) == 1

\* the object whose knowledge_base a rebuild assigns: the SimpleRAGAgent under
\* construction (self.knowledge_base = self.load_knowledge_base())
RebuildTarget(new, current) == new

\* chat: agent.run / agent.run_advanced is looked up on the object the global
\* is bound to at that moment; the method then runs on that object
ChatBegin(w) ==
    /\ workers[w].pc \in {"idle", "swapped"}
    /\ workers' = [workers EXCEPT ![w].pc = "bound", ![w].self = agent_ref]
    /\ UNCHANGED <<disk, heap, agent_ref, agent_cfg, app_mode>>
    /\ UNCHANGED <<chunkVars, searchVars, chatVars, voiceVars, loadVars, smartVars, ctxVars>>

\* search_knowledge: if not self.knowledge_base
ChatCheck(w) ==
    /\ workers[w].pc = "bound"
    /\ workers' = [workers EXCEPT ![w].pc = "checked",
                                  ![w].seen82 = heap[workers[w].self]]
    /\ UNCHANGED <<disk, heap, agent_ref, agent_cfg, app_mode>>
    /\ UNCHANGED <<chunkVars, searchVars, chatVars, voiceVars, loadVars, smartVars, ctxVars>>

\* search_knowledge: lines = self.knowledge_base.split('\n'), and the rest of
\* the retrieval on those lines
ChatSplit(w) ==
    /\ workers[w].pc = "checked"
    /\ workers' = [workers EXCEPT ![w].pc = "searched",
                                  ![w].seen91 = heap[workers[w].self]]
    /\ UNCHANGED <<disk, heap, agent_ref, agent_cfg, app_mode>>
    /\ UNCHANGED <<chunkVars, searchVars, chatVars, voiceVars, loadVars, smartVars, ctxVars>>

\* chat returns its answer
ChatEnd(w) ==
    /\ workers[w].pc = "searched"
    /\ workers' = [workers EXCEPT ![w] = IdleWorker]
    /\ UNCHANGED <<disk, heap, agent_ref, agent_cfg, app_mode>>
    /\ UNCHANGED <<chunkVars, searchVars, chatVars, voiceVars, loadVars, smartVars, ctxVars>>

\* upload_file: file.save(filepath) of a document that is not there yet
UploadFile(w, d) ==
    /\ workers[w].pc = "idle"
    /\ Len(heap) < MaxAgents
    /\ d \notin disk
    /\ disk' = disk \cup {d}
    /\ workers' = [workers EXCEPT ![w].pc = "changed"]
    /\ UNCHANGED <<heap, agent_ref, agent_cfg, app_mode>>
    /\ UNCHANGED <<chunkVars, searchVars, chatVars, voiceVars, loadVars, smartVars, ctxVars>>

\* delete_file: os.remove(filepath) of a document that is there
DeleteFile(w, d) ==
    /\ workers[w].pc = "idle"
    /\ Len(heap) < MaxAgents
    /\ d \in disk
    /\ disk' = disk \ {d}
    /\ workers' = [workers EXCEPT ![w].pc = "changed"]
    /\ UNCHANGED <<heap, agent_ref, agent_cfg, app_mode>>
    /\ UNCHANGED <<chunkVars, searchVars, chatVars, voiceVars, loadVars, smartVars, ctxVars>>

\* reload_knowledge_base: nothing changes on disk
ReloadKnowledgeBase(w) ==
    /\ workers[w].pc = "idle"
    /\ Len(heap) < MaxAgents
    /\ workers' = [workers EXCEPT ![w].pc = "changed"]
    /\ UNCHANGED <<disk, heap, agent_ref, agent_cfg, app_mode>>
    /\ UNCHANGED <<chunkVars, searchVars, chatVars, voiceVars, loadVars, smartVars, ctxVars>>

\* chat in advanced mode whose response_mode asks for the other kind of agent:
\* a SimpleRAGAgent(fast_mode=...) is built from the folder as it is
ChatSwap(w, response_mode) ==
    /\ workers[w].pc = "idle"
    /\ Len(heap) < MaxAgents
    /\ \E fast \in {AgentForProfile(agent_cfg[agent_ref].fast_mode, response_mode)} :
        /\ fast # agent_cfg[agent_ref].fast_mode
        /\ workers' = [workers EXCEPT ![w].pc = "changed", ![w].op = "chat",
                                      ![w].fast = fast]
    /\ UNCHANGED <<disk, heap, agent_ref, agent_cfg, app_mode>>
    /\ UNCHANGED <<chunkVars, searchVars, chatVars, voiceVars, loadVars, smartVars, ctxVars>>

\* switch_model: agent.llm.model = "mistral:7b" on the object the global is
\* bound to, when 'ollama list' names that model
SwitchModel(available) ==
    /\ agent_cfg' = IF available
                    THEN [agent_cfg EXCEPT ![agent_ref].model = StandardModel]
                    ELSE agent_cfg
    /\ UNCHANGED <<disk, heap, agent_ref, workers, app_mode>>
    /\ UNCHANGED <<chunkVars, searchVars, chatVars, voiceVars, loadVars, smartVars, ctxVars>>

\* set_mode: app_mode = new_mode when it is one of the two modes
SetMode(new_mode) ==
    /\ app_mode' = IF new_mode \in AppModes THEN new_mode ELSE app_mode
    /\ UNCHANGED <<disk, heap, agent_ref, workers, agent_cfg>>
    /\ UNCHANGED <<chunkVars, searchVars, chatVars, voiceVars, loadVars, smartVars, ctxVars>>

\* SimpleRAGAgent(fast_mode): the new object exists, with its llm and
\* fast_mode and without knowledge_base, and load_knowledge_base has listed
\* the folder
Construct(w) ==
    /\ workers[w].pc = "changed"
    /\ heap' = Append(heap, Unset)
    /\ agent_cfg' = Append(agent_cfg, AgentCfg(workers[w].fast))
    /\ workers' = [workers EXCEPT ![w].pc = "loading", ![w].new = Len(heap) + 1,
                                  ![w].todo = disk, ![w].content = {}]
    /\ UNCHANGED <<disk, agent_ref, app_mode>>
    /\ UNCHANGED <<chunkVars, searchVars, chatVars, voiceVars, loadVars, smartVars, ctxVars>>

\* load_knowledge_base: the next listed file is read into knowledge_content,
\* or skipped when it is no longer there
ReadFile(w) ==
    /\ workers[w].pc = "loading"
    /\ workers[w].todo # {}
    /\ LET d == CHOOSE x \in workers[w].todo : \A y \in workers[w].todo : x <= y
       IN  workers' = [workers EXCEPT
                           ![w].todo = @ \ {d},
                           ![w].content = @ \cup ({d} \cap disk)]
    /\ UNCHANGED <<disk, heap, agent_ref, agent_cfg, app_mode>>
    /\ UNCHANGED <<chunkVars, searchVars, chatVars, voiceVars, loadVars, smartVars, ctxVars>>

\* __init__: self.knowledge_base = <the loaded corpus>
Assign(w) ==
    /\ workers[w].pc = "loading"
    /\ workers[w].todo = {}
    /\ heap' = [heap EXCEPT ![RebuildTarget(workers[w].new, agent_ref)] =
                                SetTo(workers[w].content)]
    /\ workers' = [workers EXCEPT ![w].pc = "assigned"]
    /\ UNCHANGED <<disk, agent_ref, agent_cfg, app_mode>>
    /\ UNCHANGED <<chunkVars, searchVars, chatVars, voiceVars, loadVars, smartVars, ctxVars>>

\* agent = SimpleRAGAgent(...): the global is bound to the new object; upload,
\* delete and reload then return, chat goes on to call the agent
Publish(w) ==
    /\ workers[w].pc = "assigned"
    /\ agent_ref' = workers[w].new
    /\ workers' = [workers EXCEPT ![w] =
                       [IdleWorker EXCEPT !.pc = IF workers[w].op = "chat"
                                                 THEN "swapped" ELSE "idle"]]
    /\ UNCHANGED <<disk, heap, agent_cfg, app_mode>>
    /\ UNCHANGED <<chunkVars, searchVars, chatVars, voiceVars, loadVars, smartVars, ctxVars>>

ReloadIdle ==
    /\ disk = {}
    /\ heap = <<SetTo({})>>
    /\ agent_ref = 1
    /\ workers = [w \in Workers |-> IdleWorker]
    /\ agent_cfg = <<AgentCfg(FALSE)>>
    /\ app_mode = "simple"

----------------------------------------------------------------------------
(* ContextManager, AgentManager and ImprovedRAGAgent (src/enhanced_rag_agent.py) *)

DefaultContextWindow == 5   \* Config.CONTEXT_WINDOW

\* a window that evicts its newest entry when it is full
DequeAppendDropNewest(d, msg, maxlen) ==
    IF Len(d) >= maxlen THEN d ELSE Append(d, msg)

\* deque(maxlen=maxlen).append(msg): when the deque is full its leftmost entry
\* is discarded
DequeAppend(d, msg, maxlen) ==
    IF maxlen = 0 THEN <<>>
    ELSE IF Len(d) = maxlen THEN Append(Tail(d), msg)
    ELSE Append(d, msg)

\* for msg in conversation_history: self.history.append(msg)
RECURSIVE manage_context(_, _, _)
manage_context(d, conversation_history, maxlen) ==
    IF conversation_history = <<>> THEN d
    ELSE manage_context(DequeAppend(d, Head(conversation_history), maxlen),
                        Tail(conversation_history), maxlen)

NoAgent == "None"

\* route_query(query): the first key, in insertion order, that occurs in the
\* lowercased query, else the agent 'default' when there is one
RECURSIVE RouteFrom(_, _, _)
RouteFrom(keys, q, k) ==
    IF k > Len(keys) THEN NoAgent
    ELSE IF IsSubstr(keys[k], q) THEN keys[k]
    ELSE RouteFrom(keys, q, k + 1)

DefaultKey == <<"d", "e", "f", "a", "u", "l", "t">>

route_query(keys, q) ==
    LET routed == RouteFrom(keys, Lower(q), 1)
    IN  IF routed # NoAgent THEN routed
        ELSE IF \E k \in 1..Len(keys) : keys[k] = DefaultKey THEN DefaultKey
        ELSE NoAgent

\* AgentManager.run(query): the agent that is run and what it is run on, or the
\* ValueError when there is none
manager_run(keys, q) ==
    LET agent == route_query(keys, q)
    IN  IF agent = NoAgent
        THEN [kind |-> "raise", agent |-> NoAgent, input |-> <<>>]
        ELSE [kind |-> "return", agent |-> agent, input |-> q]

\* a chat that hands the context window to the manager together with the query
ImprovedChatWithContext(d, maxlen, keys, q, h) ==
    LET window == manage_context(d, Append(h, q), maxlen)
    IN  [history |-> window,
         out |-> manager_run(keys, Join(window, <<NL>>) \o <<NL>> \o q)]

\* ImprovedRAGAgent.chat(query, history): the context window afterwards, and
\* the outcome of manager.run(query)
ImprovedChat(d, maxlen, keys, q, h) ==
    [history |-> manage_context(d, Append(h, q), maxlen),
     out |-> manager_run(keys, q)]

\* the configured context windows
Capacities == (0..MaxCapacity) \cup {DefaultContextWindow}

\* the messages and queries of a conversation
Messages == {<<"c", "b">>, <<"C", "a">>, <<"1", "1">>}

RECURSIVE SeqsUpTo(_, _)
SeqsUpTo(S, n) ==
    IF n = 0 THEN {<<>>}
    ELSE LET shorter == SeqsUpTo(S, n - 1)
         IN  shorter \cup {Append(h, m) : h \in {t \in shorter : Len(t) = n - 1}, m \in S}

Histories == SeqsUpTo(Messages, MaxHistory)

\* the agents registered with the manager; ImprovedRAGAgent registers 'default'
AgentSets ==
    {<<DefaultKey>>, <<<<"c">>, DefaultKey>>, <<DefaultKey, <<"c">>>>,
     <<<<"C", "a">>, <<"1">>>>, <<>>}

NoChat == [kind |-> "none", agent |-> NoAgent, input |-> <<>>]

ContextIdle ==
    /\ window_size = DefaultContextWindow
    /\ history_maxlen = DefaultContextWindow
    /\ history = <<>>
    /\ appended = <<>>
    /\ console_history = <<>>
    /\ agents = <<DefaultKey>>
    /\ chat_query = NoQuery
    /\ chat_out = NoChat

\* one call of ContextManager.manage_context
ManageContext(conversation_history) ==
    /\ Len(appended) + Len(conversation_history) <= MaxAppended
    /\ history' = manage_context(history, conversation_history, history_maxlen)
    /\ appended' = appended \o conversation_history
    /\ UNCHANGED <<window_size, history_maxlen, console_history, agents, chat_query, chat_out>>
    /\ UNCHANGED <<chunkVars, searchVars, chatVars, voiceVars, loadVars, smartVars, reloadVars>>

\* one call of ImprovedRAGAgent.chat(query, history)
ImprovedChatCall(q, h) ==
    /\ chat_query = NoQuery
    /\ \E r \in {ImprovedChat(history, history_maxlen, agents, q, h)} :
        /\ history' = r.history
        /\ chat_out' = r.out
    /\ chat_query' = q
    /\ appended' = <<>>
    /\ UNCHANGED <<window_size, history_maxlen, console_history, agents>>
    /\ UNCHANGED <<chunkVars, searchVars, chatVars, voiceVars, loadVars, smartVars, reloadVars>>

\* the caller has taken the answer (or caught the exception)
ImprovedChatReturn ==
    /\ chat_query # NoQuery
    /\ chat_query' = NoQuery
    /\ chat_out' = NoChat
    /\ UNCHANGED <<window_size, history_maxlen, history, appended, console_history, agents>>
    /\ UNCHANGED <<chunkVars, searchVars, chatVars, voiceVars, loadVars, smartVars, reloadVars>>

\* one turn of the console loop: resp = agent.chat(query, history), then
\* history.append(query) unless chat raised
ConsoleTurn(q) ==
    /\ Len(console_history) < MaxTurns
    /\ \E r \in {ImprovedChat(history, history_maxlen, agents, q, console_history)} :
        /\ history' = r.history
        /\ chat_out' = r.out
        /\ console_history' = IF r.out.kind = "raise" THEN console_history
                              ELSE Append(console_history, q)
    /\ chat_query' = q
    /\ appended' = <<>>
    /\ UNCHANGED <<window_size, history_maxlen, agents>>
    /\ UNCHANGED <<chunkVars, searchVars, chatVars, voiceVars, loadVars, smartVars, reloadVars>>

----------------------------------------------------------------------------
(* Actions *)

DefaultChunkSize == 500   \* Config.CHUNK_SIZE
DefaultOverlap == 50      \* Config.CHUNK_OVERLAP

\* one call of search_knowledge on an agent that is not in a call
SearchKnowledge(q) ==
    /\ query = NoQuery
    /\ \E r \in {search_knowledge(knowledge_base, q)} :
        /\ query' = q
        /\ relevant_sections' = r.relevant
        /\ sorted_sections' = r.sorted
        /\ top_matches' = r.top
        /\ accepted' = r.accepted
        /\ unique_matches' = r.unique
        /\ context' = r.result
        /\ UNCHANGED knowledge_base
        /\ UNCHANGED <<chunkVars, restVars>>

NoSearch ==
    /\ query = NoQuery
    /\ relevant_sections = <<>>
    /\ sorted_sections = <<>>
    /\ top_matches = <<>>
    /\ accepted = <<>>
    /\ unique_matches = <<>>
    /\ context = <<>>

\* the caller has taken the returned context: the locals of the call are gone
SearchReturn ==
    /\ query # NoQuery
    /\ query' = NoQuery
    /\ relevant_sections' = <<>>
    /\ sorted_sections' = <<>>
    /\ top_matches' = <<>>
    /\ accepted' = <<>>
    /\ unique_matches' = <<>>
    /\ context' = <<>>
    /\ UNCHANGED knowledge_base
    /\ UNCHANGED <<chunkVars, restVars>>

\* the caller has taken the chunk list (or caught the exception)
ProcessReturn ==
    /\ dp_out # NotCalled
    /\ dp_out' = NotCalled
    /\ doc_text' = <<>>
    /\ UNCHANGED <<chunk_size, overlap>>
    /\ UNCHANGED <<searchVars, restVars>>

\* no call of process_document in progress, on a processor with the default configuration
ChunkIdle ==
    /\ chunk_size = DefaultChunkSize
    /\ overlap = DefaultOverlap
    /\ doc_text = <<>>
    /\ dp_out = NotCalled

\* nothing in progress outside the chunker and the search
RestIdle ==
    /\ ReloadIdle
    /\ VoiceIdle
    /\ LoadIdle
    /\ SmartIdle
    /\ qa_chain = FALSE
    /\ smart_kb = Unset
    /\ ChatIdle
    /\ ContextIdle
    /\ agent_fast_mode = FALSE
    /\ agent_llm = AgentLLM(FALSE)

\* one call of clean_for_voice
CleanForVoice(text) ==
    /\ voice_out = NotCleaned
    /\ voice_text' = text
    /\ voice_out' = clean_for_voice(text)
    /\ UNCHANGED <<chunkVars, searchVars, chatVars, loadVars, smartVars, reloadVars, ctxVars>>

\* the caller has taken the cleaned text
VoiceReturn ==
    /\ voice_out # NotCleaned
    /\ voice_text' = <<>>
    /\ voice_out' = NotCleaned
    /\ UNCHANGED <<chunkVars, searchVars, chatVars, loadVars, smartVars, reloadVars, ctxVars>>

\* the knowledge bases of the chat application
ChatCorpora == {<<>>, Join(<<Tok(0) \o <<SP>> \o Tok(1), Tok(2)>>, <<NL>>)}

\* POST /chat with the JSON body data, from get_json() to jsonify(); a new
\* SimpleRAGAgent loads the same files, so knowledge_base is as before
ChatRequest(data) ==
    /\ request = NoRequest
    /\ request' = data
    /\ LET user_message == Get(data, "message", <<>>)
           mode == Get(data, "mode", "simple")
           temperature == Get(data, "temperature", DefaultTemperature)
           max_context == Get(data, "max_context", StandardContext)
           prompt_strategy == Get(data, "prompt_strategy", "simple")
           response_mode == Get(data, "response_mode", "standard")
       IN  IF user_message = <<>>
           THEN /\ response' = PleaseProvide
                /\ UNCHANGED <<agent_fast_mode, agent_llm, answer_path, backend, prompt,
                               llm_outcome, agent_out>>
                /\ UNCHANGED searchVars
           ELSE \E o \in Outcomes :
                \E search \in {search_knowledge(knowledge_base, user_message)} :
                \E fast \in {IF mode = "advanced"
                             THEN AgentForProfile(agent_fast_mode, response_mode)
                             ELSE agent_fast_mode} :
                \E llm \in {IF fast = agent_fast_mode THEN agent_llm ELSE AgentLLM(fast)} :
                \E r \in {IF mode = "advanced"
                          THEN run_advanced(search, user_message, temperature, max_context,
                                            prompt_strategy, o)
                          ELSE run(llm, search, user_message, o)} :
                    /\ agent_fast_mode' = fast
                    /\ agent_llm' = llm
                    /\ answer_path' = IF mode = "advanced" THEN "run_advanced" ELSE "run"
                    /\ backend' = r.backend
                    /\ prompt' = r.prompt
                    /\ llm_outcome' = o
                    /\ agent_out' = r.out
                    /\ response' = ChatResponse(r.out)
                    /\ query' = user_message
                    /\ relevant_sections' = search.relevant
                    /\ sorted_sections' = search.sorted
                    /\ top_matches' = search.top
                    /\ accepted' = search.accepted
                    /\ unique_matches' = search.unique
                    /\ context' = search.result
                    /\ UNCHANGED knowledge_base
    /\ UNCHANGED <<chunkVars, voiceVars, loadVars, smartVars, reloadVars, ctxVars>>

\* the JSON answer has been sent: the locals of the request are gone, the
\* global agent stays
ChatReturn ==
    /\ request # NoRequest
    /\ request' = NoRequest
    /\ answer_path' = "none"
    /\ backend' = AgentLLM(FALSE)
    /\ prompt' = <<>>
    /\ llm_outcome' = NotInvoked
    /\ agent_out' = NoOutcome
    /\ response' = <<>>
    /\ query' = NoQuery
    /\ relevant_sections' = <<>>
    /\ sorted_sections' = <<>>
    /\ top_matches' = <<>>
    /\ accepted' = <<>>
    /\ unique_matches' = <<>>
    /\ context' = <<>>
    /\ UNCHANGED <<agent_fast_mode, agent_llm, knowledge_base>>
    /\ UNCHANGED <<chunkVars, voiceVars, loadVars, smartVars, reloadVars, ctxVars>>

\* one call of load_knowledge_base
LoadKnowledgeBase ==
    /\ load_out = NotLoaded
    /\ load_out' = load_knowledge_base(kb_file, docs_exists, docs)
    /\ UNCHANGED <<kb_file, docs_exists, docs>>
    /\ UNCHANGED <<chunkVars, searchVars, chatVars, voiceVars, smartVars, reloadVars, ctxVars>>

\* the caller has taken the corpus (or the exception)
LoadReturn ==
    /\ load_out # NotLoaded
    /\ load_out' = NotLoaded
    /\ UNCHANGED <<kb_file, docs_exists, docs>>
    /\ UNCHANGED <<chunkVars, searchVars, chatVars, voiceVars, smartVars, reloadVars, ctxVars>>

\* one call of SmartRAGAgent.run; the vector path needs the backend, which
\* answers or raises, the basic path invokes the completion service
SmartRun(q) ==
    /\ smart_query = NoQuery
    /\ smart_query' = q
    /\ \E chain \in IF qa_chain THEN ChainOutcomes ELSE {NoChain},
          o \in IF qa_chain THEN {NotInvoked} ELSE Outcomes :
        /\ vector_up' = (qa_chain /\ chain.kind = "ok")
        /\ smart_out' = smart_run(qa_chain, smart_kb, q, chain, o)
    /\ UNCHANGED <<qa_chain, smart_kb>>
    /\ UNCHANGED <<chunkVars, searchVars, chatVars, voiceVars, loadVars, reloadVars, ctxVars>>

\* the caller has taken the answer
SmartReturn ==
    /\ smart_query # NoQuery
    /\ smart_query' = NoQuery
    /\ vector_up' = TRUE
    /\ smart_out' = NoSmartCall
    /\ UNCHANGED <<qa_chain, smart_kb>>
    /\ UNCHANGED <<chunkVars, searchVars, chatVars, voiceVars, loadVars, reloadVars, ctxVars>>

\* an agent whose knowledge base has been loaded, before any request
Init ==
    /\ knowledge_base \in Corpora
    /\ NoSearch
    /\ chunk_size = DefaultChunkSize
    /\ overlap = DefaultOverlap
    /\ doc_text = <<>>
    /\ dp_out = NotCalled
    /\ RestIdle

Next ==
    \/ \E q \in Queries : SearchKnowledge(q)
    \/ SearchReturn

Spec == Init /\ [][Next]_vars

\* a DocumentProcessor constructed with some configuration, before any call
InitChunk ==
    /\ chunk_size \in ConfigValues
    /\ overlap \in ConfigValues
    /\ doc_text = <<>>
    /\ dp_out = NotCalled
    /\ knowledge_base = <<>>
    /\ NoSearch
    /\ RestIdle

NextChunk ==
    \/ \E t \in Texts : ProcessDocument(t)
    \/ ProcessReturn

SpecChunk == InitChunk /\ [][NextChunk]_vars

\* an agent whose knowledge base has lines before, inside and behind every
\* window, or lines that grow by query words
InitSelect ==
    /\ knowledge_base \in SelectCorpora
    /\ NoSearch
    /\ ChunkIdle
    /\ RestIdle

NextSelect ==
    \/ \E q \in Queries : SearchKnowledge(q)
    \/ SearchReturn

SpecSelect == InitSelect /\ [][NextSelect]_vars

\* an agent about to clean model responses
InitVoice ==
    /\ RestIdle
    /\ ChunkIdle
    /\ knowledge_base = <<>>
    /\ NoSearch

NextVoice ==
    \/ \E t \in VoiceTexts : CleanForVoice(t)
    \/ VoiceReturn

SpecVoice == InitVoice /\ [][NextVoice]_vars

\* the application after start-up: agent = SimpleRAGAgent()
InitChat ==
    /\ knowledge_base \in ChatCorpora
    /\ NoSearch
    /\ ChunkIdle
    /\ RestIdle

NextChat ==
    \/ \E data \in Bodies : ChatRequest(data)
    \/ ChatReturn

SpecChat == InitChat /\ [][NextChat]_vars

\* a working directory with or without knowledge_base.txt and doccydocs
InitLoad ==
    /\ kb_file \in {"absent", "readable", "unreadable"}
    /\ docs_exists \in BOOLEAN
    /\ docs \in {l \in Listings(MaxFiles) : DistinctNames(l)}
    /\ ~docs_exists => docs = <<>>
    /\ load_out = NotLoaded
    /\ ReloadIdle
    /\ VoiceIdle
    /\ SmartIdle
    /\ qa_chain = FALSE
    /\ smart_kb = Unset
    /\ ChatIdle
    /\ ContextIdle
    /\ agent_fast_mode = FALSE
    /\ agent_llm = AgentLLM(FALSE)
    /\ ChunkIdle
    /\ knowledge_base = <<>>
    /\ NoSearch

NextLoad ==
    \/ LoadKnowledgeBase
    \/ LoadReturn

SpecLoad == InitLoad /\ [][NextLoad]_vars

\* a SmartRAGAgent after __init__: setup_vectorstore either built the QA chain
\* (knowledge_base is then never assigned) or failed and fallback_setup loaded
\* the basic knowledge base (qa_chain is then None)
InitSmart ==
    /\ qa_chain \in BOOLEAN
    /\ smart_kb \in {Unset} \cup {SetTo(t) : t \in SmartCorpora}
    /\ qa_chain <=> smart_kb = Unset
    /\ SmartIdle
    /\ ReloadIdle
    /\ VoiceIdle
    /\ LoadIdle
    /\ ChatIdle
    /\ ContextIdle
    /\ agent_fast_mode = FALSE
    /\ agent_llm = AgentLLM(FALSE)
    /\ ChunkIdle
    /\ knowledge_base = <<>>
    /\ NoSearch

NextSmart ==
    \/ \E q \in Queries : SmartRun(q)
    \/ SmartReturn

SpecSmart == InitSmart /\ [][NextSmart]_vars

\* the application after start-up: the global is bound to an agent that has
\* loaded what the folder held, and no request is being handled
InitReload ==
    /\ disk \in SUBSET Docs
    /\ heap = <<SetTo(disk)>>
    /\ agent_ref = 1
    /\ workers = [w \in Workers |-> IdleWorker]
    /\ agent_cfg = <<AgentCfg(FALSE)>>
    /\ app_mode = "simple"
    /\ VoiceIdle
    /\ LoadIdle
    /\ SmartIdle
    /\ qa_chain = FALSE
    /\ smart_kb = Unset
    /\ ChatIdle
    /\ ContextIdle
    /\ agent_fast_mode = FALSE
    /\ agent_llm = AgentLLM(FALSE)
    /\ ChunkIdle
    /\ knowledge_base = <<>>
    /\ NoSearch

NextReload ==
    \/ \E w \in Workers : ChatBegin(w)
    \/ \E w \in Workers : ChatCheck(w)
    \/ \E w \in Workers : ChatSplit(w)
    \/ \E w \in Workers : ChatEnd(w)
    \/ \E w \in Workers, d \in Docs : UploadFile(w, d)
    \/ \E w \in Workers, d \in Docs : DeleteFile(w, d)
    \/ \E w \in Workers : ReloadKnowledgeBase(w)
    \/ \E w \in Workers : Construct(w)
    \/ \E w \in Workers : ReadFile(w)
    \/ \E w \in Workers : Assign(w)
    \/ \E w \in Workers : Publish(w)
    \/ \E w \in Workers, response_mode \in {"fast", "standard"} : ChatSwap(w, response_mode)

SpecReload == InitReload /\ [][NextReload]_vars

\* the rest of the program while the enhanced agent is examined
OutsideContextIdle ==
    /\ ReloadIdle
    /\ VoiceIdle
    /\ LoadIdle
    /\ SmartIdle
    /\ qa_chain = FALSE
    /\ smart_kb = Unset
    /\ request = NoRequest
    /\ answer_path = "none"
    /\ backend = AgentLLM(FALSE)
    /\ prompt = <<>>
    /\ llm_outcome = NotInvoked
    /\ agent_out = NoOutcome
    /\ response = <<>>
    /\ agent_fast_mode = FALSE
    /\ agent_llm = AgentLLM(FALSE)
    /\ ChunkIdle
    /\ knowledge_base = <<>>
    /\ NoSearch

\* a ContextManager() as ImprovedRAGAgent constructs it, under some
\* configured CONTEXT_WINDOW
InitContext ==
    /\ window_size \in Capacities
    /\ history_maxlen = window_size
    /\ history = <<>>
    /\ appended = <<>>
    /\ console_history = <<>>
    /\ agents = <<DefaultKey>>
    /\ chat_query = NoQuery
    /\ chat_out = NoChat
    /\ OutsideContextIdle

NextContext == \E h \in Histories : ManageContext(h)

SpecContext == InitContext /\ [][NextContext]_vars

\* the console loop before its first turn
InitConsole == InitContext

NextConsole == \E q \in Messages : ConsoleTurn(q)

SpecConsole == InitConsole /\ [][NextConsole]_vars

\* an ImprovedRAGAgent with some agents registered, after some conversation
InitEnhanced ==
    /\ window_size \in Capacities
    /\ history_maxlen = window_size
    /\ history \in {manage_context(<<>>, h, window_size) : h \in Histories}
    /\ appended = <<>>
    /\ console_history = <<>>
    /\ agents \in AgentSets
    /\ chat_query = NoQuery
    /\ chat_out = NoChat
    /\ OutsideContextIdle

NextEnhanced ==
    \/ \E q \in Messages, h \in Histories : ImprovedChatCall(q, h)
    \/ ImprovedChatReturn

SpecEnhanced == InitEnhanced /\ [][NextEnhanced]_vars

\* the application after start-up, serving one request at a time
InitServer ==
    /\ disk \in SUBSET Docs
    /\ heap = <<SetTo(disk)>>
    /\ agent_ref = 1
    /\ workers = [w \in {"w1"} |-> IdleWorker]
    /\ agent_cfg = <<AgentCfg(FALSE)>>
    /\ app_mode = "simple"
    /\ VoiceIdle
    /\ LoadIdle
    /\ SmartIdle
    /\ qa_chain = FALSE
    /\ smart_kb = Unset
    /\ ChatIdle
    /\ ContextIdle
    /\ agent_fast_mode = FALSE
    /\ agent_llm = AgentLLM(FALSE)
    /\ ChunkIdle
    /\ knowledge_base = <<>>
    /\ NoSearch

\* every operation of the server on the agent
NextServer ==
    \/ \E w \in DOMAIN workers : ChatBegin(w)
    \/ \E w \in DOMAIN workers : ChatCheck(w)
    \/ \E w \in DOMAIN workers : ChatSplit(w)
    \/ \E w \in DOMAIN workers : ChatEnd(w)
    \/ \E w \in DOMAIN workers, d \in Docs : UploadFile(w, d)
    \/ \E w \in DOMAIN workers, d \in Docs : DeleteFile(w, d)
    \/ \E w \in DOMAIN workers : ReloadKnowledgeBase(w)
    \/ \E w \in DOMAIN workers : Construct(w)
    \/ \E w \in DOMAIN workers : ReadFile(w)
    \/ \E w \in DOMAIN workers : Assign(w)
    \/ \E w \in DOMAIN workers : Publish(w)
    \/ \E w \in DOMAIN workers, response_mode \in {"fast", "standard"} :
           ChatSwap(w, response_mode)
    \/ \E available \in BOOLEAN : SwitchModel(available)
    \/ \E new_mode \in AppModes \cup {"voice"} : SetMode(new_mode)

SpecServer == InitServer /\ [][NextServer]_vars

----------------------------------------------------------------------------
(* Vocabulary of the properties *)

\* process_document has been called and has not yet returned to its caller
ChunkCalled == dp_out # NotCalled

\* a configuration with 0 <= overlap < chunk_size
ValidConfig == 0 <= overlap /\ overlap < chunk_size

DocTokens == Split(doc_text)

\* the first chunk in full, and of every later chunk the tokens after its first ov
RECURSIVE NonOverlapping(_, _, _)
NonOverlapping(chunks, ov, k) ==
    IF k > Len(chunks) THEN <<>>
    ELSE (IF k = 1 THEN Split(chunks[k])
          ELSE SubSeq(Split(chunks[k]), ov + 1, Len(Split(chunks[k]))))
         \o NonOverlapping(chunks, ov, k + 1)

\* search_knowledge has been called and has not yet returned to its caller
SearchCalled == query # NoQuery

Lines == SplitOn(knowledge_base, NL)

\* the windows search_knowledge returns, as positions in top_matches
ReturnedPos == SubSeq(accepted, 1, Min(Len(accepted), MaxReturned))

AcceptedSet == ToSet(accepted)

\* distinct tokens two window texts have in common
SharedTokens(a, b) == Cardinality(ToSet(Split(a)) \cap ToSet(Split(b)))

TokenCount(a) == Len(Split(a))

----------------------------------------------------------------------------
(* Chunker *)

\* C1: for 0 <= overlap < chunk_size, process_document loses no token: the first
\* chunk in full followed by every later chunk without its first `overlap`
\* tokens is the whitespace-split token sequence of the text.
C1_NoTokenLost ==
    (ChunkCalled /\ ValidConfig) =>
        /\ dp_out.kind = "ok"
        /\ NonOverlapping(dp_out.chunks, overlap, 1) = DocTokens

\* C2: for 0 <= overlap < chunk_size, every chunk has at most chunk_size tokens,
\* and chunk k (counted from 0) is the tokens from k * (chunk_size - overlap) on,
\* so consecutive chunks start chunk_size - overlap tokens apart, the first at 0.
C2_ChunkBounds ==
    (ChunkCalled /\ ValidConfig) =>
        /\ dp_out.kind = "ok"
        /\ \A k \in 1..Len(dp_out.chunks) :
            LET start == (k - 1) * (chunk_size - overlap)
                toks == Split(dp_out.chunks[k])
            IN  /\ Len(toks) <= chunk_size
                /\ start < Len(DocTokens)
                /\ toks = SubSeq(DocTokens, start + 1,
                                 Min(Len(DocTokens), start + chunk_size))

\* a call that returned at least two overlapping chunks of different content
C2_Witness ==
    /\ ChunkCalled
    /\ ValidConfig
    /\ overlap > 0
    /\ Len(dp_out.chunks) >= 2
    /\ dp_out.chunks[1] # dp_out.chunks[2]

\* C3: with overlap >= chunk_size, or chunk_size <= 0, process_document reports
\* an error instead of returning a list of chunks (stated for the texts that
\* hold at least one token).
C3_InvalidConfigIsError ==
    (ChunkCalled /\ DocTokens # <<>> /\ (overlap >= chunk_size \/ chunk_size <= 0))
        => dp_out.kind # "ok"

----------------------------------------------------------------------------
(* Relevance scorer *)

\* words of the query that occur in the line, each word of the list counted,
\* plus the number of query words when the whole query occurs in the line
ExpectedScore(line) ==
    LET words == Split(Lower(query))
    IN  Cardinality({k \in 1..Len(words) : IsSubstr(words[k], Lower(line))})
        + (IF IsSubstr(Lower(query), Lower(line)) THEN Len(words) ELSE 0)

\* C4: the score of each corpus line is the number of query words that are
\* substrings of the lowercased line, plus the query word count when the whole
\* lowercased query is a substring of the lowercased line.
C4_Score ==
    (SearchCalled /\ knowledge_base # <<>>) =>
        /\ \A k \in 1..Len(relevant_sections) :
            /\ relevant_sections[k].i \in 0..(Len(Lines) - 1)
            /\ relevant_sections[k].score =
                   ExpectedScore(Lines[relevant_sections[k].i + 1])
        /\ \A i \in 0..(Len(Lines) - 1) :
            ExpectedScore(Lines[i + 1]) > 0 =>
                \E k \in 1..Len(relevant_sections) : relevant_sections[k].i = i

\* a two-word query found as a phrase in one line (2 + 2) and in part in another
C4_Witness ==
    /\ SearchCalled
    /\ Len(Split(query)) = 2
    /\ \E k \in 1..Len(relevant_sections) : relevant_sections[k].score = 4
    /\ \E k \in 1..Len(relevant_sections) : relevant_sections[k].score = 1

----------------------------------------------------------------------------
(* Deduplicator and selector *)

MaxScore == CHOOSE m \in {relevant_sections[k].score : k \in 1..Len(relevant_sections)} :
                \A k \in 1..Len(relevant_sections) : relevant_sections[k].score <= m

\* C5: the returned windows are in non-increasing score order, windows of equal
\* score in ascending line index, and the first returned window is the one
\* centred on the lowest-indexed line of maximum score.
C5_Order ==
    (SearchCalled /\ relevant_sections # <<>>) =>
        /\ ReturnedPos # <<>>
        /\ \A k, l \in 1..Len(ReturnedPos) :
            k < l =>
                LET a == sorted_sections[ReturnedPos[k]]
                    b == sorted_sections[ReturnedPos[l]]
                IN  /\ a.score >= b.score
                    /\ a.score = b.score => a.i < b.i
        /\ LET first == sorted_sections[ReturnedPos[1]]
           IN  /\ first.score = MaxScore
               /\ \A k \in 1..Len(relevant_sections) :
                      relevant_sections[k].score = MaxScore =>
                          first.i <= relevant_sections[k].i
               /\ first.context = Window(Lines, first.i)
               /\ SubSeq(context, 1, Len(first.context)) = first.context

\* two windows of equal score returned, and the best line is not the first scoring one
C5_Witness ==
    /\ SearchCalled
    /\ Len(ReturnedPos) >= 2
    /\ relevant_sections[1].score < MaxScore
    /\ \E k \in 1..(Len(ReturnedPos) - 1) :
           sorted_sections[ReturnedPos[k]].score = sorted_sections[ReturnedPos[k + 1]].score

\* the positions a greedy walk over the window texts `texts` accepts: a window
\* is accepted exactly when it duplicates no window accepted before it
GreedySet(texts) ==
    CHOOSE S \in SUBSET (1..Len(texts)) :
        \A k \in 1..Len(texts) :
            k \in S <=> \A j \in S : j < k => ~IsDuplicate(texts[k], texts[j])

AllSortedTexts == [k \in 1..Len(sorted_sections) |-> sorted_sections[k].context]

FirstFourTexts ==
    [k \in 1..Min(Len(sorted_sections), 4) |-> sorted_sections[k].context]

\* C6 as stated: at most 3 windows are returned, and fewer than 3 only when
\* fewer than 3 candidates of the entire sorted list pass the overlap test.
C6_WalksWholeList ==
    SearchCalled =>
        /\ Len(ReturnedPos) <= 3
        /\ Len(ReturnedPos) < 3 => Cardinality(GreedySet(AllSortedTexts)) < 3

\* C6 amended: the walk covers the first 4 sorted candidates only; the number
\* of returned windows is the number of those 4 that pass, capped at 3.
C6_WalksFirstFour ==
    SearchCalled =>
        /\ Len(ReturnedPos) <= 3
        /\ Len(ReturnedPos) = Min(3, Cardinality(GreedySet(FirstFourTexts)))
        /\ relevant_sections # <<>> =>
               context = Join([k \in 1..Len(ReturnedPos) |->
                                   sorted_sections[ReturnedPos[k]].context], Separator)

\* fewer than 3 windows returned although a candidate behind the fourth would pass
C6_Witness ==
    /\ SearchCalled
    /\ Len(sorted_sections) > 4
    /\ Len(ReturnedPos) < 3
    /\ Cardinality(GreedySet(AllSortedTexts)) > Len(ReturnedPos)

\* C7: a candidate is accepted if and only if, for every window accepted before
\* it, |tokenset(candidate) & tokenset(accepted)| / |candidate tokens| <= 0.7.
C7_AcceptIffAtMost70 ==
    SearchCalled =>
        \A k \in 1..Len(top_matches) :
            k \in AcceptedSet <=>
                \A j \in AcceptedSet :
                    j < k => 10 * SharedTokens(top_matches[k], top_matches[j])
                                 <= 7 * TokenCount(top_matches[k])

\* C8 as stated: a candidate with 70% or more of its tokens in an accepted
\* window is rejected, exactly 70% included (stated for the candidates whose
\* tokens are all different, where "70% of its tokens" has one reading).
C8_RejectAtLeast70 ==
    SearchCalled =>
        \A k \in 1..Len(top_matches) :
            (\E j \in AcceptedSet :
                /\ j < k
                /\ Cardinality(ToSet(Split(top_matches[k]))) = TokenCount(top_matches[k])
                /\ 10 * SharedTokens(top_matches[k], top_matches[j])
                       >= 7 * TokenCount(top_matches[k]))
            => k \notin AcceptedSet

\* C8 amended: a candidate is rejected whenever the distinct tokens it shares
\* with some accepted window number more than 70% of its token count.
C8_RejectAbove70 ==
    SearchCalled =>
        \A k \in 1..Len(top_matches) :
            (\E j \in AcceptedSet :
                /\ j < k
                /\ 10 * SharedTokens(top_matches[k], top_matches[j])
                       > 7 * TokenCount(top_matches[k]))
            => k \notin AcceptedSet

\* a candidate rejected for sharing more than 70% with an accepted window, next
\* to an accepted candidate
C8_Witness ==
    /\ SearchCalled
    /\ Len(accepted) >= 2
    /\ \E k \in 1..Len(top_matches) :
        /\ k \notin AcceptedSet
        /\ \E j \in AcceptedSet :
            /\ j < k
            /\ 10 * SharedTokens(top_matches[k], top_matches[j])
                   > 7 * TokenCount(top_matches[k])

\* both windows have at least 80% of their tokens in common with the other
Share80(a, b) ==
    /\ 10 * SharedTokens(a, b) >= 8 * TokenCount(a)
    /\ 10 * SharedTokens(a, b) >= 8 * TokenCount(b)

Returned(k) == \E r \in 1..Len(ReturnedPos) : ReturnedPos[r] = k

\* the top-ranked window is in the result
TopRankedReturned ==
    relevant_sections # <<>> =>
        /\ Returned(1)
        /\ SubSeq(context, 1, Len(sorted_sections[1].context)) = sorted_sections[1].context

\* a candidate is dropped only because of an accepted window ranked before it
DroppedBecauseOfEarlier ==
    \A k \in 1..Len(top_matches) :
        k \notin AcceptedSet =>
            \E j \in AcceptedSet :
                /\ j < k
                /\ 10 * SharedTokens(top_matches[k], top_matches[j])
                       >= 7 * TokenCount(top_matches[k])

\* C9 as stated: the top-ranked window is in the result, a window is dropped
\* only because of a window ranked before it, and of two windows sharing 80%
\* of their tokens only the higher-ranked one survives (in particular the
\* lower-ranked one is not returned).
C9_HigherRankedSurvives ==
    SearchCalled =>
        /\ TopRankedReturned
        /\ DroppedBecauseOfEarlier
        /\ \A j, k \in 1..Len(top_matches) :
            (j < k /\ Share80(top_matches[j], top_matches[k])) => ~Returned(k)

\* C9 amended: the top-ranked window is in the result, a candidate is dropped
\* only because of an accepted window ranked before it, and a candidate with
\* 80% of its tokens in an accepted window ranked before it is dropped while
\* that accepted window is returned.
C9_AcceptedSurvives ==
    SearchCalled =>
        /\ TopRankedReturned
        /\ DroppedBecauseOfEarlier
        /\ \A j \in AcceptedSet : \A k \in 1..Len(top_matches) :
            (j < k /\ 10 * SharedTokens(top_matches[k], top_matches[j])
                          >= 8 * TokenCount(top_matches[k])) =>
                Returned(j) /\ ~Returned(k)

\* a candidate dropped for an accepted window, and a later one accepted although
\* it shares 80% with the dropped one
C9_Witness ==
    /\ SearchCalled
    /\ \E j, k, l \in 1..Len(top_matches) :
        /\ j < k /\ k < l
        /\ Returned(j) /\ ~Returned(k) /\ Returned(l)
        /\ 10 * SharedTokens(top_matches[k], top_matches[j]) >= 8 * TokenCount(top_matches[k])
        /\ Share80(top_matches[k], top_matches[l])

----------------------------------------------------------------------------
(* Context assembler *)

\* C10: for every budget maxChars the context assembled from the selected
\* windows has at most maxChars characters, and it is a whole number of leading
\* windows (none cut).
C10_Budget ==
    (SearchCalled /\ relevant_sections # <<>>) =>
        /\ \A maxChars \in 0..MaxContextChars : Len(context) <= maxChars
        /\ \E n \in 0..Len(unique_matches) :
               context = Join(SubSeq(unique_matches, 1, n), Separator)

----------------------------------------------------------------------------
(* Empty inputs of the search *)

\* the two placeholder strings search_knowledge returns instead of windows
Sentinels == {NoKnowledgeBase, NoRelevantInformation}

\* no line of the knowledge base scores above 0 for the query
NothingScores == \A i \in 1..Len(Lines) : ExpectedScore(Lines[i]) = 0

\* C11: with an empty knowledge base, or a query that is empty or only
\* whitespace, or whenever no line scores above 0, search_knowledge returns a
\* value (no exception), builds no window and returns a placeholder string.
C11_EmptyIsSentinel ==
    (SearchCalled /\ (knowledge_base = <<>> \/ Split(query) = <<>> \/ NothingScores)) =>
        /\ relevant_sections = <<>>
        /\ top_matches = <<>>
        /\ unique_matches = <<>>
        /\ context \in Sentinels
        /\ knowledge_base = <<>> => context = NoKnowledgeBase

\* a whitespace-only query that occurs as a substring of a line of the knowledge base
C11_Witness ==
    /\ SearchCalled
    /\ query = <<SP>>
    /\ \E i \in 1..Len(Lines) : IsSubstr(query, Lines[i])
    /\ context = NoRelevantInformation

----------------------------------------------------------------------------
(* Response post-processor *)

\* clean_for_voice has been called and has not yet returned to its caller
VoiceCalled == voice_out # NotCleaned

\* the text after marker removal and newline replacement: no '*', no '`', and
\* '. ' where a newline was
WithoutMarkup(s) ==
    ReplaceNewlines(SelectSeq(s, LAMBDA c : c \notin {"*", Backtick}))

\* the text cut to its first 500 characters and the ellipsis when it is longer
HardTruncated(t) ==
    IF Len(t) > VoiceLimit THEN SubSeq(t, 1, VoiceLimit) \o Ellipsis ELSE t

NoOuterWhitespace(s) == s = <<>> \/ (~IsSpace(s[1]) /\ ~IsSpace(s[Len(s)]))

\* C20: clean_for_voice returns a string for every input (the empty string for
\* empty input): the cleaned text when it has at most 500 characters, its first
\* 500 characters followed by "..." when it is longer, in both cases with the
\* leading and trailing whitespace removed, so that the result neither begins
\* nor ends with whitespace and has at most 503 characters.
C20_TruncatedThenTrimmed ==
    VoiceCalled =>
        /\ LET cut == HardTruncated(WithoutMarkup(voice_text))
           IN  \E i, j \in 0..(2 * MaxMarkup) :
                   /\ i + j <= Len(cut)
                   /\ voice_out = SubSeq(cut, i + 1, Len(cut) - j)
                   /\ \A k \in 1..i : IsSpace(cut[k])
                   /\ \A k \in (Len(cut) - j + 1)..Len(cut) : IsSpace(cut[k])
        /\ NoOuterWhitespace(voice_out)
        /\ Len(voice_out) <= VoiceLimit + Len(Ellipsis)
        /\ voice_text = <<>> => voice_out = <<>>

\* the characters clean_for_voice removes or replaces
Markers == {"*", Backtick, NL}

Has(s, c) == \E k \in 1..Len(s) : s[k] = c

\* C21: the output of clean_for_voice holds no '*', no grave accent and no
\* newline; for a text within the limit it is the input without its '*' and
\* grave accents, with '. ' in place of every newline, trimmed.
C21_NoMarkersLeft ==
    VoiceCalled =>
        /\ \A k \in 1..Len(voice_out) : voice_out[k] \notin Markers
        /\ Len(WithoutMarkup(voice_text)) <= VoiceLimit =>
               voice_out = Strip(WithoutMarkup(voice_text))

\* an answer with emphasis, a code fence and a newline in front of its last
\* word: the word follows '. ' in the output
C21_Witness ==
    /\ VoiceCalled
    /\ \A c \in Markers : Has(voice_text, c)
    /\ IsSubstr(<<"*", NL, "*", "b">>, voice_text)
    /\ IsSubstr(<<".", SP, "b">>, voice_out)

\* a text longer than the limit that begins with whitespace: cut, then trimmed
C20_Witness ==
    /\ VoiceCalled
    /\ Len(WithoutMarkup(voice_text)) > VoiceLimit
    /\ IsSpace(voice_text[1])
    /\ Len(voice_out) < VoiceLimit + Len(Ellipsis)
    /\ SubSeq(voice_out, Len(voice_out) - 2, Len(voice_out)) = Ellipsis

----------------------------------------------------------------------------
(* Prompt builder *)

\* a chat request is being handled
ChatCalled == request # NoRequest

UserMessage == Get(request, "message", <<>>)

\* the strategy the request names, "simple" when it names none
RequestedStrategy == Get(request, "prompt_strategy", "simple")

\* C12: a strategy outside {simple, enhanced, analytical, creative}, or none at
\* all, gives the prompt that get_advanced_prompt builds for "simple" from the
\* same query and context, and no error: run_advanced returns, and when the
\* completion service answers, the answer is its cleaned response.
C12_UnknownStrategyIsSimple ==
    (ChatCalled /\ answer_path = "run_advanced" /\ RequestedStrategy \notin Strategies) =>
        /\ prompt = get_advanced_prompt(UserMessage, context, "simple")
        /\ prompt = RunPrompt(UserMessage, context)
        /\ agent_out.kind = "return"
        /\ llm_outcome.kind = "ok" => response = clean_for_voice(llm_outcome.text)

\* an advanced request that names the strategy "bogus" and is answered by the model
C12_Witness ==
    /\ ChatCalled
    /\ answer_path = "run_advanced"
    /\ "prompt_strategy" \in request.keys
    /\ RequestedStrategy = "bogus"
    /\ llm_outcome.kind = "ok"
    /\ relevant_sections # <<>>

\* the positions of p that hold one of the texts of S
Positions(p, S) == {i \in 1..Len(p) : p[i] \in S}

\* C13: every prompt sent to the completion service, by run_advanced for each
\* strategy and by run, begins with the role framing, then holds the context
\* block (header line, then the retrieved context), then the instruction
\* block, and ends with the response cue, all of one template: the context
\* ends before the instructions begin, and the cue is the last element.
C13_PromptOrder ==
    (ChatCalled /\ answer_path # "none") =>
        \E b \in Strategies :
            /\ answer_path = "run" => b = "simple"
            /\ (answer_path = "run_advanced" /\ RequestedStrategy \in Strategies)
                   => b = RequestedStrategy
            /\ prompt[1] = RoleFraming(b)[1]
            /\ prompt[Len(prompt)] = ResponseCue(b)[1]
            /\ Positions(prompt, {ResponseCue(s)[1] : s \in Strategies}) = {Len(prompt)}
            /\ \E h, n \in 2..(Len(prompt) - 1) :
                /\ Positions(prompt, {ContextHeader(s)[1] : s \in Strategies}) = {h}
                /\ Positions(prompt, {Instructions(s)[1] : s \in Strategies}) = {n}
                /\ prompt[h] = ContextHeader(b)[1]
                /\ SubSeq(prompt, h + 2, h + 1 + Len(context)) = context
                /\ h + 1 + Len(context) < n
                /\ SubSeq(prompt, n, n + Len(Instructions(b)) - 1) = Instructions(b)
                /\ n + Len(Instructions(b)) - 1 < Len(prompt)

\* an analytical prompt around a context of retrieved windows
C13_Witness ==
    /\ ChatCalled
    /\ answer_path = "run_advanced"
    /\ RequestedStrategy = "analytical"
    /\ relevant_sections # <<>>
    /\ Len(prompt) > Len(context) + Len(Instructions("analytical"))

----------------------------------------------------------------------------
(* Orchestrator *)

ApologyOpenings ==
    {"I encountered a technical error: ",
     "I encountered a technical error in advanced mode: "}

\* C14: when the completion service raises, run and run_advanced raise nothing:
\* they return a user-facing message, either the technical-error message that
\* holds str(e) or, in run_advanced for a refused connection, the message that
\* the LLM server cannot be reached; chat answers with that message.
C14_FailureNotPropagated ==
    (ChatCalled /\ llm_outcome.kind = "raise") =>
        /\ agent_out.kind = "return"
        /\ response = agent_out.value
        /\ LET v == agent_out.value
               e == llm_outcome.exc
           IN  \/ /\ v = UnableToConnect
                  /\ answer_path = "run_advanced"
                  /\ e.type = "ConnectionRefusedError" \/ e.errno = "ECONNREFUSED"
               \/ /\ v[1] \in ApologyOpenings
                  /\ SubSeq(v, 2, Len(v) - 1) = Str(e)
                  /\ v[Len(v)] = ". Please try again or contact support."

\* a refused connection during an advanced request
C14_Witness ==
    /\ ChatCalled
    /\ answer_path = "run_advanced"
    /\ llm_outcome.kind = "raise"
    /\ llm_outcome.exc.type = "ConnectionRefusedError"
    /\ response = UnableToConnect

\* C15: an advanced request is completed with the backend of its speed profile
\* (fast: the lighter model, and the smaller context window when the request
\* names no window; standard: the standard model) and with the template of its
\* strategy, for every combination of the two.
C15_ProfileAndStrategy ==
    (ChatCalled /\ answer_path = "run_advanced" /\ RequestedStrategy \in Strategies) =>
        /\ prompt = PromptTemplate(RequestedStrategy, UserMessage, context)
        /\ Get(request, "response_mode", "standard") = "standard"
               => backend.model = StandardModel
        /\ Get(request, "response_mode", "standard") = "fast"
               => /\ backend.model = FastModel
                  /\ "max_context" \notin request.keys => backend.num_ctx = FastContext

\* C17: a simple-mode request is served by the same backend, the standard one
\* the application starts with, whatever the earlier requests asked for.
C17_SimpleRequestUnaffected ==
    (ChatCalled /\ answer_path = "run") => backend = AgentLLM(FALSE)

----------------------------------------------------------------------------
(* Corpus loader *)

\* load_knowledge_base has been called and has not yet returned to its caller
LoadCalled == load_out # NotLoaded

\* what a file contributes when nothing fails: the text of a .txt file, the
\* page texts of a PDF each followed by a newline
FileText(file) ==
    IF EndsWith(file.name, DotTxt) THEN file.pages[1]
    ELSE PagesText(file.pages, 1)

\* a .txt or .pdf file that is read without failure and, for a PDF, has text
Readable(file) ==
    /\ file.fault = "none"
    /\ \/ EndsWith(file.name, DotTxt)
       \/ EndsWith(file.name, DotPdf) /\ \E k \in 1..Len(FileText(file)) :
                                             ~IsSpace(FileText(file)[k])

\* C18: whatever files of the document folder fail to open, read or extract,
\* load_knowledge_base returns (knowledge_base.txt being absent or readable),
\* and every readable .txt / .pdf file of the folder is in the corpus, its text
\* right after its "=== name ===" header.
C18_LoadSurvivesFileFailures ==
    (LoadCalled /\ kb_file # "unreadable") =>
        /\ load_out.kind = "ok"
        /\ docs_exists =>
               \A k \in 1..Len(docs) :
                   Readable(docs[k]) =>
                       IsSubstr(Header(docs[k].name) \o FileText(docs[k]) \o <<NL, NL>>,
                                load_out.corpus)

\* a file that fails between two readable files, both in the corpus
C18_Witness ==
    /\ LoadCalled
    /\ Len(docs) = 3
    /\ Readable(docs[1])
    /\ docs[2].fault # "none"
    /\ Readable(docs[3])
    /\ IsSubstr(Header(docs[3].name) \o FileText(docs[3]), load_out.corpus)

\* the listing without the files on which something fails
RECURSIVE WithoutFailed(_, _)
WithoutFailed(files, k) ==
    IF k > Len(files) THEN <<>>
    ELSE (IF files[k].fault = "none" THEN <<files[k]>> ELSE <<>>)
         \o WithoutFailed(files, k + 1)

\* C29: a .txt or .pdf file whose read raises leaves no trace in the corpus:
\* the corpus is the one the folder would give without the failed files, so
\* it holds neither the header marker nor any text of a failed file.
C29_FailedFileLeavesNoTrace ==
    (LoadCalled /\ load_out.kind = "ok" /\ docs_exists) =>
        /\ load_out.corpus =
               load_knowledge_base(kb_file, docs_exists, WithoutFailed(docs, 1)).corpus
        /\ \A k \in 1..Len(docs) :
               docs[k].fault # "none" => ~IsSubstr(Header(docs[k].name), load_out.corpus)

----------------------------------------------------------------------------
(* Alternate retrieval backend *)

\* SmartRAGAgent.run has been called and has not yet returned to its caller
SmartCalled == smart_query # NoQuery

\* C19: when the vector-search backend is unavailable, because setup failed
\* (no QA chain) or because it fails during the query, run answers by the
\* lexical search over the loaded corpus and returns no error message (other
\* than for a failure of the completion service during that lexical answer).
C19_FallsBackToLexical ==
    (SmartCalled /\ ~vector_up) =>
        \/ smart_out.path = "basic"
        \/ ~qa_chain /\ smart_out.path = "error"

----------------------------------------------------------------------------
(* Corpus replacement under concurrent requests *)

\* the request threads that are inside search_knowledge
Retrieving == {w \in Workers : workers[w].pc \in {"checked", "searched"}}

\* C16: the agent the global is bound to always has its whole corpus, and a
\* chat request performs its retrieval on the corpus of the one agent it was
\* bound to when it began: both reads of knowledge_base give that agent's
\* complete corpus - the old one when a rebuild replaces the global meanwhile,
\* never an unassigned, partly loaded or changed one.
C16_AtomicSwap ==
    /\ heap[agent_ref].set
    /\ \A w \in Workers :
        /\ workers[w].pc \in {"bound", "checked", "searched"} => heap[workers[w].self].set
        /\ w \in Retrieving => workers[w].seen82 = heap[workers[w].self]
        /\ workers[w].pc = "searched" =>
               /\ workers[w].seen91 = workers[w].seen82
               /\ workers[w].seen91.set

\* a retrieval that ends on the old corpus after the global has been bound to
\* an agent with another corpus
C16_Witness ==
    \E w \in Workers :
        /\ workers[w].pc = "searched"
        /\ workers[w].self # agent_ref
        /\ heap[agent_ref] # workers[w].seen91
        /\ workers[w].seen91 = heap[workers[w].self]

\* no request is being handled
Quiescent == \A w \in Workers : workers[w].pc = "idle"

\* C27: once every upload, delete and reload request has completed, the corpus
\* of the agent the global is bound to holds exactly the documents that are in
\* the folder: every uploaded document, and no deleted one.
C27_CorpusReflectsFolder ==
    Quiescent => heap[agent_ref] = SetTo(disk)

----------------------------------------------------------------------------
(* The corpus of an agent *)

\* C26: once an agent has its knowledge_base, no step of any operation (chat
\* with search_knowledge, run or run_advanced, set-mode, switch-model, upload,
\* delete, reload) changes it, and the corpus of the agent the global is bound
\* to changes only in a step that binds the global to another agent.
C26_CorpusNeverMutated ==
    [][/\ \A id \in DOMAIN heap : heap[id].set => heap'[id] = heap[id]
       /\ heap'[agent_ref'] # heap[agent_ref] => agent_ref' # agent_ref]_vars

\* a fast agent that switch-model has set to the standard model, in advanced
\* mode, after a retrieval on it: its corpus is the one it was built with
C26_Witness ==
    /\ app_mode = "advanced"
    /\ agent_cfg[agent_ref] = [AgentCfg(TRUE) EXCEPT !.model = StandardModel]
    /\ workers["w1"].pc = "searched"
    /\ workers["w1"].self = agent_ref
    /\ workers["w1"].seen91 = heap[agent_ref]
    /\ heap[agent_ref].text # {}

----------------------------------------------------------------------------
(* Scoring, windows and selection *)

\* the score search_knowledge gave line i (counted from 0): 0 when it built no
\* window for it
ScoreGiven(i) ==
    IF \E k \in 1..Len(relevant_sections) : relevant_sections[k].i = i
    THEN (CHOOSE sec \in ToSet(relevant_sections) : sec.i = i).score
    ELSE 0

\* every word of the text s is a word of the query
QueryWordsOnly(s) ==
    \A k \in 1..Len(Split(s)) :
        \E n \in 1..Len(Split(Lower(query))) : Lower(Split(s)[k]) = Split(Lower(query))[n]

\* line g is line l with occurrences of query words put in front of it, behind
\* it or both, the text of l kept as it is
GrownFrom(g, l) ==
    /\ Len(g) > Len(l)
    /\ \E a \in 0..(Len(g) - Len(l)) :
        /\ SubSeq(g, a + 1, a + Len(l)) = l
        /\ QueryWordsOnly(SubSeq(g, 1, a))
        /\ QueryWordsOnly(SubSeq(g, a + Len(l) + 1, Len(g)))
        /\ Split(SubSeq(g, 1, a)) \o Split(SubSeq(g, a + Len(l) + 1, Len(g))) # <<>>

\* C22: a line that is another line with more occurrences of query words added
\* around the unchanged text never gets a lower score than that line.
C22_ScoreMonotonic ==
    (SearchCalled /\ knowledge_base # <<>>) =>
        \E ls \in {Lines} :
            \A i, j \in 0..(Len(ls) - 1) :
                GrownFrom(ls[j + 1], ls[i + 1]) => ScoreGiven(j) >= ScoreGiven(i)

\* a line that scores, and the same line with a query word added that scores more
C22_Witness ==
    /\ SearchCalled
    /\ \E i, j \in 0..(Len(Lines) - 1) :
        /\ GrownFrom(Lines[j + 1], Lines[i + 1])
        /\ ScoreGiven(i) > 0
        /\ ScoreGiven(j) > ScoreGiven(i)

\* lines 113-129 run on a list of scored windows: the candidates, the accepted
\* windows in order, and the returned text
Selection(sections) ==
    LET sorted == SortByScore(sections)
        top == TopMatches(sorted)
        acc == DedupFrom(top, 1, <<>>)
        unique == [k \in 1..Len(acc) |-> top[acc[k]]]
    IN  [sorted |-> sorted, top |-> top, unique |-> unique,
         result |-> Join(PySlice(unique, 0, MaxReturned), Separator)]

\* C23: the selection run again, on the scored windows as the first run left
\* them (sorted in place) or as they were built, gives the same candidates, the
\* same accepted windows in the same order and the same returned text.
C23_SelectionIdempotent ==
    (SearchCalled /\ relevant_sections # <<>>) =>
        /\ \E again \in {Selection(sorted_sections)} :
               /\ again.sorted = sorted_sections
               /\ again.top = top_matches
               /\ again.unique = unique_matches
               /\ again.result = context
        /\ Selection(relevant_sections).unique = unique_matches

\* two windows of equal score among the candidates, and a duplicate rejected
C23_Witness ==
    /\ SearchCalled
    /\ Len(sorted_sections) >= 2
    /\ sorted_sections[1].score = sorted_sections[2].score
    /\ Len(unique_matches) >= 2
    /\ Len(unique_matches) < Len(top_matches)

\* C24: search_knowledge builds one window for each line whose score is above
\* 0 and for no other line, in line order; the window of line i is the lines
\* max(0, i-3) .. min(len, i+4)-1 joined by newlines: at most 7 lines, line i
\* among them, none from outside the knowledge base.
C24_Windows ==
    (SearchCalled /\ knowledge_base # <<>>) =>
        \E ls \in {Lines} :
            /\ Len(relevant_sections) =
                   Cardinality({i \in 0..(Len(ls) - 1) : ExpectedScore(ls[i + 1]) > 0})
            /\ \A k \in 1..Len(relevant_sections) :
                   LET i == relevant_sections[k].i
                       lo == IF i - 3 < 0 THEN 0 ELSE i - 3
                       hi == IF i + 4 > Len(ls) THEN Len(ls) ELSE i + 4
                   IN  /\ i \in 0..(Len(ls) - 1)
                       /\ ExpectedScore(ls[i + 1]) > 0
                       /\ k > 1 => relevant_sections[k - 1].i < i
                       /\ relevant_sections[k].context = Join(SubSeq(ls, lo + 1, hi), <<NL>>)
                       /\ lo <= i /\ i < hi /\ hi - lo <= 7
                       /\ SplitOn(relevant_sections[k].context, NL)[i - lo + 1] = ls[i + 1]

\* a window of 7 lines in the middle of the knowledge base, one cut at its
\* start and one cut at its end, and a line without score between scoring lines
C24_Witness ==
    /\ SearchCalled
    /\ \E k \in 1..Len(relevant_sections) :
           /\ relevant_sections[k].i = 3
           /\ Len(SplitOn(relevant_sections[k].context, NL)) = 7
           /\ Len(Lines) > 7
    /\ relevant_sections[1].i = 0
    /\ relevant_sections[Len(relevant_sections)].i = Len(Lines) - 1
    /\ Len(relevant_sections) < Len(Lines)

----------------------------------------------------------------------------
(* Conversation context *)

\* the last n entries of s, all of s when it has fewer
LastN(s, n) == SubSeq(s, Len(s) - (IF Len(s) < n THEN Len(s) ELSE n) + 1, Len(s))

\* C25: after any sequence of manage_context calls the history holds at most
\* as many entries as the configured capacity, and they are the most recently
\* appended messages in arrival order (the oldest were evicted first).
C25_BoundedFifo ==
    /\ Len(history) <= window_size
    /\ history = LastN(appended, window_size)

\* more messages than the capacity have arrived, among them different ones,
\* and the window is full
C25_Witness ==
    /\ window_size >= 2
    /\ Len(appended) > window_size
    /\ Len(history) = window_size
    /\ appended[1] # appended[Len(appended)]
    /\ history[Len(history)] = appended[Len(appended)]

\* ImprovedRAGAgent.chat has been called and has not yet returned to its caller
ImprovedChatCalled == chat_query # NoQuery

\* C28: after a turn of the console loop the context window holds the most
\* recent CONTEXT_WINDOW turns of the conversation, each once, in order.
C28_WindowIsRecentTurns ==
    ImprovedChatCalled => history = LastN(console_history, window_size)

\* the context windows a conversation can have left behind
PriorWindows == {manage_context(<<>>, h, history_maxlen) : h \in Histories}

\* C30: whatever history is passed to chat and whatever the context window
\* held before, the same query with the same agents runs the same agent on the
\* same input (or raises the same error); the input is the query itself.
C30_AnswerIgnoresHistory ==
    ImprovedChatCalled =>
        /\ \A h \in Histories, d \in PriorWindows :
               ImprovedChat(d, history_maxlen, agents, chat_query, h).out = chat_out
        /\ chat_out.kind = "return" => chat_out.input = chat_query

\* a query routed by keyword to an agent other than 'default', with earlier
\* messages in the context window
C30_Witness ==
    /\ ImprovedChatCalled
    /\ Len(history) >= 2
    /\ chat_out.kind = "return"
    /\ chat_out.agent = <<"c">>
    /\ history[Len(history)] = chat_query

====
